---- MODULE Spec2Model ----
(***************************************************************************)
(* A model of llm-stream-parser: the BufferManager, the TagMatcher (its    *)
(* regular expressions are modelled by what they match) and the            *)
(* StreamParser engine in flat and in nested mode.                         *)
(*                                                                         *)
(* Strings are sequences of one-character strings; offsets are 0-based as  *)
(* in the source.  A thrown exception is modelled by the `err` field of    *)
(* the record an operator returns: "none" or the ParserErrorCode.          *)
(***************************************************************************)
EXTENDS Integers, Sequences, FiniteSets, TLC

VARIABLES
  buffer,               \* BufferManager.buffer
  totalBytesProcessed,  \* BufferManager.totalBytesProcessed
  bufLast,              \* outcome of the last direct BufferManager call
  config,               \* StreamParser.config (RequiredParserConfig)
  tagRegistry,          \* StreamParser.tagRegistry
  state,                \* StreamParser.state
  stats,                \* StreamParser.stats
  tagStack,             \* StreamParser.tagStack
  currentDepth,         \* StreamParser.currentDepth
  currentPath,          \* StreamParser.currentPath
  heap,                 \* the NestedTag objects created so far, by identity
  events,               \* the notifications emitted so far, in order
  last,                 \* outcome of the last engine call
  calls,                \* number of engine calls made
  text,                 \* split runs: the whole input text
  pos,                  \* split runs: how much of text has been fed
  lastIndex,            \* TagPatterns: the lastIndex of each of the five patterns
  matched               \* outcome of the last direct TagMatcher call

vars == <<buffer, totalBytesProcessed, bufLast, config, tagRegistry, state, stats,
          tagStack, currentDepth, currentPath, heap, events, last, calls, text, pos,
          lastIndex, matched>>

bufVars == <<buffer, totalBytesProcessed, bufLast>>
engVars == <<config, tagRegistry, state, stats, tagStack, currentDepth, currentPath,
             heap, events, last, calls>>
splitVars == <<text, pos>>
matchVars == <<lastIndex, matched>>

(***************************************************************************)
(* Bounds of the model.                                                    *)
(***************************************************************************)
MaxCalls == 4        \* engine calls per behaviour
MaxBufferSize == 8   \* config.maxBufferSize of the engine runs
MaxDepth == 2        \* config.maxDepth
MinLen == 2          \* the parameter of ContentValidators.minLength
BufMax == 3          \* maxSize of the stand-alone BufferManager runs
BufOps == 4          \* direct BufferManager calls per behaviour
MaxTokens == 3       \* tokens per text of the split runs
MaxFragments == 3    \* fragments a text of the split runs is fed in
MaxDocCalls == 2     \* engine calls per behaviour of the document runs
MaxMatchTokens == 2  \* tokens per buffer of the matcher runs
MaxAttributes == 2   \* attributes per attribute string of the matcher runs
MaxStart == 3        \* largest start offset given to findNextTag
MaxMatcherCalls == 2 \* direct TagMatcher calls per behaviour

(***************************************************************************)
(* Characters and strings.                                                 *)
(***************************************************************************)
LowerLetters ==
  <<"a", "b", "c", "d", "e", "f", "g", "h", "i", "j", "k", "l", "m", "n", "o", "p", "q",
    "r", "s", "t", "u", "v", "w", "x", "y", "z">>
UpperLetters ==
  <<"A", "B", "C", "D", "E", "F", "G", "H", "I", "J", "K", "L", "M", "N", "O", "P", "Q",
    "R", "S", "T", "U", "V", "W", "X", "Y", "Z">>
Lower == {LowerLetters[i] : i \in 1..Len(LowerLetters)}
Upper == {UpperLetters[i] : i \in 1..Len(UpperLetters)}
Digit == {"0", "1", "2", "3", "4", "5", "6", "7", "8", "9"}
Space == {" ", "\n"}

IsLetter(c) == c \in Lower \cup Upper               \* [a-zA-Z]
IsNameChar(c) == IsLetter(c) \/ c \in Digit \/ c \in {"_", "-"}  \* [a-zA-Z0-9_-]
IsWord(c) == IsLetter(c) \/ c \in Digit \/ c = "_"  \* \w
IsSpace(c) == c \in Space                           \* \s

Ch(s, i) == s[i + 1]

\* String.prototype.slice(a, b) for 0 <= a, b
Slice(s, a, b) ==
  LET bb == IF b > Len(s) THEN Len(s) ELSE b
  IN IF a >= bb THEN <<>> ELSE SubSeq(s, a + 1, bb)

RECURSIVE TrimStart(_)
TrimStart(s) ==
  IF s # <<>> /\ IsSpace(Head(s)) THEN TrimStart(Tail(s)) ELSE s

RECURSIVE TrimEnd(_)
TrimEnd(s) ==
  IF s # <<>> /\ IsSpace(s[Len(s)]) THEN TrimEnd(SubSeq(s, 1, Len(s) - 1)) ELSE s

\* String.prototype.trim
Trim(s) == TrimEnd(TrimStart(s))

LowerMap ==
  [c \in Upper |-> LowerLetters[CHOOSE i \in 1..Len(UpperLetters) : UpperLetters[i] = c]]
UpperMap ==
  [c \in Lower |-> UpperLetters[CHOOSE i \in 1..Len(LowerLetters) : LowerLetters[i] = c]]

LowerOf(c) == IF c \in Upper THEN LowerMap[c] ELSE c
UpperOf(c) == IF c \in Lower THEN UpperMap[c] ELSE c

\* String.prototype.toLowerCase / toUpperCase
ToLowerCase(s) == [i \in 1..Len(s) |-> LowerOf(s[i])]
ToUpperCase(s) == [i \in 1..Len(s) |-> UpperOf(s[i])]

(***************************************************************************)
(* BufferManager.  A buffer is [buffer, total]; maxSize is a parameter.    *)
(***************************************************************************)
appendNoCheck(b, chunk, maxSize) ==
  [buffer |-> b.buffer \o chunk, total |-> b.total + Len(chunk), err |-> "none"]

appendCountsRejected(b, chunk, maxSize) ==
  IF Len(b.buffer) + Len(chunk) > maxSize
  THEN [buffer |-> b.buffer, total |-> b.total + Len(chunk), err |-> "BUFFER_OVERFLOW"]
  ELSE [buffer |-> b.buffer \o chunk, total |-> b.total + Len(chunk), err |-> "none"]

\* BufferManager.append: overflow is checked before anything is written.
\* (Chunks are strings in the model, so the typeof guard never fires.)
append(b, chunk, maxSize) ==
  IF Len(b.buffer) + Len(chunk) > maxSize
  THEN [buffer |-> b.buffer, total |-> b.total, err |-> "BUFFER_OVERFLOW"]
  ELSE [buffer |-> b.buffer \o chunk, total |-> b.total + Len(chunk), err |-> "none"]

consumeWhole(b, length) ==
  IF length <= 0 THEN [buffer |-> b.buffer, total |-> b.total, ret |-> <<>>]
  ELSE [buffer |-> <<>>, total |-> b.total, ret |-> b.buffer]

\* BufferManager.consume: returns the removed prefix in `ret`.
consume(b, length) ==
  IF length <= 0 THEN [buffer |-> b.buffer, total |-> b.total, ret |-> <<>>]
  ELSE IF length >= Len(b.buffer)
       THEN [buffer |-> <<>>, total |-> b.total, ret |-> b.buffer]
       ELSE [buffer |-> Slice(b.buffer, length, Len(b.buffer)), total |-> b.total,
             ret |-> Slice(b.buffer, 0, length)]

\* BufferManager.removeRange: a no-op on invalid ranges.
removeRange(b, startIndex, endIndex) ==
  IF startIndex < 0 \/ endIndex < startIndex \/ startIndex >= Len(b.buffer)
  THEN b
  ELSE [b EXCEPT !.buffer = Slice(b.buffer, 0, startIndex)
                            \o Slice(b.buffer, endIndex, Len(b.buffer))]

\* BufferManager.clear: empties the buffer, keeps totalBytesProcessed.
clear(b) == [b EXCEPT !.buffer = <<>>]

Buf == [buffer |-> buffer, total |-> totalBytesProcessed]

(***************************************************************************)
(* TagPatterns: what each regular expression matches when anchored at      *)
(* offset i of s.  A raw match is [found, index, end, name, attrs,         *)
(* content]; every quantifier of the patterns is greedy except the         *)
(* content group of COMPLETE.  An intermediate result that is used more    *)
(* than once is handed on as a parameter.                                  *)
(***************************************************************************)
NoExec == [found |-> FALSE, index |-> 0, end |-> 0, name |-> <<>>, attrs |-> <<>>,
           content |-> <<>>]

Exec(i, e, name, attrs, content) ==
  [found |-> TRUE, index |-> i, end |-> e, name |-> name, attrs |-> attrs,
   content |-> content]

RECURSIVE NameEnd(_, _)
NameEnd(s, i) == IF i < Len(s) /\ IsNameChar(Ch(s, i)) THEN NameEnd(s, i + 1) ELSE i

RECURSIVE SpaceEnd(_, _)
SpaceEnd(s, i) == IF i < Len(s) /\ IsSpace(Ch(s, i)) THEN SpaceEnd(s, i + 1) ELSE i

\* offset of the first occurrence of character c at or after i, or -1
RECURSIVE IndexOfChar(_, _, _)
IndexOfChar(s, c, i) ==
  IF i >= Len(s) THEN -1
  ELSE IF Ch(s, i) = c THEN i ELSE IndexOfChar(s, c, i + 1)

StartsName(s, i) == i + 1 < Len(s) /\ Ch(s, i) = "<" /\ IsLetter(Ch(s, i + 1))

\* OPENING after a name followed by white space: gt is the offset of the first ">"
OpeningAttrs(s, i, e, gt) ==
  IF gt # -1 THEN Exec(i, gt + 1, Slice(s, i + 1, e), Slice(s, e, gt), <<>>) ELSE NoExec

\* OPENING after the name, which ends at e
OpeningFrom(s, i, e) ==
  IF e < Len(s) /\ Ch(s, e) = ">" THEN Exec(i, e + 1, Slice(s, i + 1, e), <<>>, <<>>)
  ELSE IF e < Len(s) /\ IsSpace(Ch(s, e)) THEN OpeningAttrs(s, i, e, IndexOfChar(s, ">", e))
  ELSE NoExec

\* OPENING = /<([a-zA-Z][a-zA-Z0-9_-]*)((?:\s+[^>]*)?)\s*>/
OpeningAt(s, i) ==
  IF StartsName(s, i) THEN OpeningFrom(s, i, NameEnd(s, i + 2)) ELSE NoExec

\* SELF_CLOSING after a name followed by white space: the "/" must precede the
\* first ">"
SelfClosingAttrs(s, i, e, gt) ==
  IF gt # -1 /\ Ch(s, gt - 1) = "/"
  THEN Exec(i, gt + 1, Slice(s, i + 1, e), Slice(s, e, gt - 1), <<>>)
  ELSE NoExec

\* SELF_CLOSING after the name, which ends at e
SelfClosingFrom(s, i, e) ==
  IF e + 1 < Len(s) /\ Ch(s, e) = "/" /\ Ch(s, e + 1) = ">"
  THEN Exec(i, e + 2, Slice(s, i + 1, e), <<>>, <<>>)
  ELSE IF e < Len(s) /\ IsSpace(Ch(s, e))
       THEN SelfClosingAttrs(s, i, e, IndexOfChar(s, ">", e))
       ELSE NoExec

\* SELF_CLOSING = /<([a-zA-Z][a-zA-Z0-9_-]*)((?:\s+[^>]*)?)\s*\/>/
SelfClosingAt(s, i) ==
  IF StartsName(s, i) THEN SelfClosingFrom(s, i, NameEnd(s, i + 2)) ELSE NoExec

\* CLOSING after the name, which ends at e; w is the end of the white space
ClosingFrom(s, i, e, w) ==
  IF w < Len(s) /\ Ch(s, w) = ">" THEN Exec(i, w + 1, Slice(s, i + 2, e), <<>>, <<>>)
  ELSE NoExec

ClosingName(s, i, e) == ClosingFrom(s, i, e, SpaceEnd(s, e))

\* CLOSING = /<\/([a-zA-Z][a-zA-Z0-9_-]*)\s*>/
ClosingAt(s, i) ==
  IF i + 2 < Len(s) /\ Ch(s, i) = "<" /\ Ch(s, i + 1) = "/" /\ IsLetter(Ch(s, i + 2))
  THEN ClosingName(s, i, NameEnd(s, i + 3))
  ELSE NoExec

\* the closer <\/\1\s*> of COMPLETE anchored at j, w the end of its white space:
\* its end offset, or -1.  The name is compared as written.
CloserEnd(s, j, name, w) ==
  IF j + 1 < Len(s) /\ Ch(s, j) = "<" /\ Ch(s, j + 1) = "/"
     /\ Slice(s, j + 2, j + 2 + Len(name)) = name /\ w < Len(s) /\ Ch(s, w) = ">"
  THEN w + 1 ELSE -1

CloserAt(s, j, name) == CloserEnd(s, j, name, SpaceEnd(s, j + 2 + Len(name)))

\* the first offset at or after j where the closer of `name` matches, or -1
RECURSIVE FindCloser(_, _, _)
FindCloser(s, j, name) ==
  IF j >= Len(s) THEN -1
  ELSE IF CloserAt(s, j, name) # -1 THEN j ELSE FindCloser(s, j + 1, name)

\* COMPLETE with the opener o matched and its closer found at j
CompleteClosed(s, i, o, j) ==
  IF j = -1 THEN NoExec
  ELSE Exec(i, CloserAt(s, j, o.name), o.name, o.attrs, Slice(s, o.end, j))

\* COMPLETE after its opener o: the content is the shortest that a closer follows
CompleteFrom(s, i, o) ==
  IF o.found THEN CompleteClosed(s, i, o, FindCloser(s, o.end, o.name)) ELSE NoExec

\* COMPLETE = /<([a-zA-Z][a-zA-Z0-9_-]*)((?:\s+[^>]*)?)\s*>(.*?)<\/\1\s*>/gs
CompleteAt(s, i) == CompleteFrom(s, i, OpeningAt(s, i))

\* RegExp.prototype.exec with lastIndex = i: the leftmost match at or after i.
\* x is the match anchored at i.
RECURSIVE ExecSelfClosing(_, _)
ExecSelfClosingOr(s, i, x) == IF x.found THEN x ELSE ExecSelfClosing(s, i + 1)
ExecSelfClosing(s, i) ==
  IF i >= Len(s) THEN NoExec ELSE ExecSelfClosingOr(s, i, SelfClosingAt(s, i))

RECURSIVE ExecOpening(_, _)
ExecOpeningOr(s, i, x) == IF x.found THEN x ELSE ExecOpening(s, i + 1)
ExecOpening(s, i) ==
  IF i >= Len(s) THEN NoExec ELSE ExecOpeningOr(s, i, OpeningAt(s, i))

RECURSIVE ExecClosing(_, _)
ExecClosingOr(s, i, x) == IF x.found THEN x ELSE ExecClosing(s, i + 1)
ExecClosing(s, i) ==
  IF i >= Len(s) THEN NoExec ELSE ExecClosingOr(s, i, ClosingAt(s, i))

RECURSIVE ExecComplete(_, _)
ExecCompleteOr(s, i, x) == IF x.found THEN x ELSE ExecComplete(s, i + 1)
ExecComplete(s, i) ==
  IF i >= Len(s) THEN NoExec ELSE ExecCompleteOr(s, i, CompleteAt(s, i))

(***************************************************************************)
(* Attribute decoding.  A decoded value is [kind, num, scale, str, bool];  *)
(* a JavaScript number is num / 10^scale with no trailing fraction zero,   *)
(* so that 1 and 1.0 are the same value.  An attribute object is           *)
(* [present, map]; present = FALSE is `undefined`.                         *)
(***************************************************************************)
BoolVal(b) == [kind |-> "boolean", num |-> 0, scale |-> 0, str |-> <<>>, bool |-> b]
StrVal(s) == [kind |-> "string", num |-> 0, scale |-> 0, str |-> s, bool |-> FALSE]
NumVal(n, k) == [kind |-> "number", num |-> n, scale |-> k, str |-> <<>>, bool |-> FALSE]

EmptyMap == [n \in {} |-> BoolVal(TRUE)]
Undefined == [present |-> FALSE, map |-> EmptyMap]
Attrs(m) == [present |-> TRUE, map |-> m]

DigitVal(c) ==
  CASE c = "0" -> 0 [] c = "1" -> 1 [] c = "2" -> 2 [] c = "3" -> 3 [] c = "4" -> 4
    [] c = "5" -> 5 [] c = "6" -> 6 [] c = "7" -> 7 [] c = "8" -> 8 [] c = "9" -> 9

AllDigits(s) == \A i \in 1..Len(s) : s[i] \in Digit

\* parseInt(s, 10) of a string of digits
RECURSIVE ParseInt(_)
ParseInt(s) ==
  IF s = <<>> THEN 0 ELSE 10 * ParseInt(SubSeq(s, 1, Len(s) - 1)) + DigitVal(s[Len(s)])

RECURSIVE StripZeros(_)
StripZeros(s) ==
  IF s # <<>> /\ s[Len(s)] = "0" THEN StripZeros(SubSeq(s, 1, Len(s) - 1)) ELSE s

FloatOf(whole, frac) == NumVal(ParseInt(whole \o frac), Len(frac))

FloatAt(s, dot) == FloatOf(Slice(s, 0, dot), StripZeros(Slice(s, dot + 1, Len(s))))

\* parseFloat of \d*\.\d+
ParseFloat(s) == FloatAt(s, IndexOfChar(s, ".", 0))

FloatTextAt(s, dot) ==
  dot # -1 /\ dot + 1 < Len(s)
  /\ AllDigits(Slice(s, 0, dot)) /\ AllDigits(Slice(s, dot + 1, Len(s)))

\* /^\d*\.\d+$/.test(s)
IsFloatText(s) == FloatTextAt(s, IndexOfChar(s, ".", 0))

parseAttributeValueNoFloat(value) ==
  IF value.kind = "boolean" THEN value
  ELSE IF value.str # <<>> /\ AllDigits(value.str) THEN NumVal(ParseInt(value.str), 0)
  ELSE IF value.str = <<"t", "r", "u", "e">> THEN BoolVal(TRUE)
  ELSE IF value.str = <<"f", "a", "l", "s", "e">> THEN BoolVal(FALSE)
  ELSE value

\* TagMatcher.parseAttributeValue; `value` is BoolVal(TRUE) or StrVal(text)
parseAttributeValue(value) ==
  IF value.kind = "boolean" THEN value
  ELSE IF value.str # <<>> /\ AllDigits(value.str) THEN NumVal(ParseInt(value.str), 0)
  ELSE IF IsFloatText(value.str) THEN ParseFloat(value.str)
  ELSE IF value.str = <<"t", "r", "u", "e">> THEN BoolVal(TRUE)
  ELSE IF value.str = <<"f", "a", "l", "s", "e">> THEN BoolVal(FALSE)
  ELSE value

RECURSIVE WordEnd(_, _)
WordEnd(s, i) == IF i < Len(s) /\ IsWord(Ch(s, i)) THEN WordEnd(s, i + 1) ELSE i

\* end of the run [^\s>]+ starting at i
RECURSIVE UnquotedEnd(_, _)
UnquotedEnd(s, i) ==
  IF i < Len(s) /\ ~IsSpace(Ch(s, i)) /\ Ch(s, i) # ">" THEN UnquotedEnd(s, i + 1) ELSE i

\* offset of the quote that closes the one at v, or -1
QuoteEnd(s, v) ==
  IF v < Len(s) /\ Ch(s, v) \in {"\"", "'"} THEN IndexOfChar(s, Ch(s, v), v + 1) ELSE -1

\* the value alternatives of ATTRIBUTES after "name=": quoted up to q, else
\* unquoted up to u, else no value at all
AttributeValue(s, i, e, q, u) ==
  IF q # -1
  THEN [end |-> q + 1, name |-> Slice(s, i, e), value |-> StrVal(Slice(s, e + 2, q))]
  ELSE IF u > e + 1
       THEN [end |-> u, name |-> Slice(s, i, e), value |-> StrVal(Slice(s, e + 1, u))]
       ELSE [end |-> e, name |-> Slice(s, i, e), value |-> BoolVal(TRUE)]

AttributeFrom(s, i, e) ==
  IF e < Len(s) /\ Ch(s, e) = "="
  THEN AttributeValue(s, i, e, QuoteEnd(s, e + 1), UnquotedEnd(s, e + 1))
  ELSE [end |-> e, name |-> Slice(s, i, e), value |-> BoolVal(TRUE)]

\* ATTRIBUTES = /(\w+)(?:=(?:"([^"]*)"|'([^']*)'|([^\s>]+)))?/ anchored at a word
\* character at i: [end, name, value]
AttributeAt(s, i) == AttributeFrom(s, i, WordEnd(s, i))

\* attributes[name] = value
Put(m, name, value) ==
  [n \in DOMAIN m \cup {name} |-> IF n = name THEN value ELSE m[n]]

\* the exec loop of parseAttributes from lastIndex i: later names overwrite
RECURSIVE AttributeLoop(_, _, _)
AttributeNext(s, m, a) ==
  AttributeLoop(s, a.end, Put(m, a.name, parseAttributeValue(a.value)))
AttributeLoop(s, i, m) ==
  IF i >= Len(s) THEN m
  ELSE IF ~IsWord(Ch(s, i)) THEN AttributeLoop(s, i + 1, m)
  ELSE AttributeNext(s, m, AttributeAt(s, i))

AttributesOf(m) == IF DOMAIN m # {} THEN Attrs(m) ELSE Undefined

\* TagMatcher.parseAttributes
parseAttributes(attributesStr) ==
  IF Trim(attributesStr) = <<>> THEN Undefined
  ELSE AttributesOf(AttributeLoop(attributesStr, 0, EmptyMap))

(***************************************************************************)
(* TagMatcher.  A TagMatch is [found, tagName, content, attributes,        *)
(* startIndex, endIndex, fullMatch, type]; found = FALSE is `null`.        *)
(***************************************************************************)
NoMatch ==
  [found |-> FALSE, tagName |-> <<>>, content |-> <<>>, attributes |-> Undefined,
   startIndex |-> 0, endIndex |-> 0, fullMatch |-> <<>>, type |-> "none"]

\* TagMatcher.normalizeTagName
normalizeTagName(tagName) ==
  IF config.caseSensitive THEN tagName ELSE ToLowerCase(tagName)

\* TagMatcher.createTagMatch; x is the raw match in searchBuffer
createTagMatch(searchBuffer, x, startIndex, type) ==
  [found |-> TRUE,
   tagName |-> normalizeTagName(x.name),
   content |-> <<>>,
   attributes |-> IF type = "closing" THEN Undefined ELSE parseAttributes(x.attrs),
   startIndex |-> startIndex + x.index,
   endIndex |-> startIndex + x.end,
   fullMatch |-> Slice(searchBuffer, x.index, x.end),
   type |-> type]

\* earliestMatch and earliestIndex before any shape was tried
NoEarliest == [found |-> FALSE, index |-> 0, raw |-> NoExec, type |-> "none"]

\* the comparison taken with <=, so that a later shape replaces an equal offset
EarlierOrEqual(earliest, x, type) ==
  IF x.found /\ (~earliest.found \/ x.index <= earliest.index)
  THEN [found |-> TRUE, index |-> x.index, raw |-> x, type |-> type]
  ELSE earliest

\* one `if (match && match.index < earliestIndex)` of findNextTag
Earlier(earliest, x, type) ==
  IF x.found /\ (~earliest.found \/ x.index < earliest.index)
  THEN [found |-> TRUE, index |-> x.index, raw |-> x, type |-> type]
  ELSE earliest

\* the three shapes tried in the order of the source
EarliestOf(sc, op, cl) ==
  Earlier(Earlier(Earlier(NoEarliest, sc, "self-closing"), op, "opening"), cl, "closing")

EarliestMatch(searchBuffer, startIndex, earliest) ==
  IF earliest.found
  THEN createTagMatch(searchBuffer, earliest.raw, startIndex, earliest.type)
  ELSE NoMatch

FindIn(searchBuffer, startIndex) ==
  EarliestMatch(searchBuffer, startIndex,
                EarliestOf(ExecSelfClosing(searchBuffer, 0), ExecOpening(searchBuffer, 0),
                           ExecClosing(searchBuffer, 0)))

\* TagMatcher.findNextTag: the earliest of the three shapes; on equal offsets the
\* shape tried first (self-closing, opening, closing) is kept.
findNextTag(buf, startIndex) == FindIn(Slice(buf, startIndex, Len(buf)), startIndex)

\* the exec loop of findCompleteTags from lastIndex i; x is the next match
RECURSIVE CompleteLoop(_, _)
CompleteNext(buf, x) ==
  IF ~x.found THEN <<>>
  ELSE <<[found |-> TRUE,
          tagName |-> normalizeTagName(x.name),
          content |-> x.content,
          attributes |-> parseAttributes(x.attrs),
          startIndex |-> x.index,
          endIndex |-> x.end,
          fullMatch |-> Slice(buf, x.index, x.end),
          type |-> "complete"]>> \o CompleteLoop(buf, x.end)
CompleteLoop(buf, i) == CompleteNext(buf, ExecComplete(buf, i))

\* TagMatcher.findCompleteTags
findCompleteTags(buf) == CompleteLoop(buf, 0)

(***************************************************************************)
(* The matcher methods as they use TagPatterns, whose regular expressions  *)
(* are static objects with the g flag: exec starts at the pattern's        *)
(* lastIndex and leaves it at the end of the match, or at 0 when nothing   *)
(* matched.  c is the lastIndex of each pattern when the method is         *)
(* entered; a call yields [ret, lastIndex].                                *)
(***************************************************************************)
ZeroIndex == [selfClosing |-> 0, opening |-> 0, closing |-> 0, complete |-> 0,
              attributes |-> 0]

\* TagPatterns.resetAll
resetAll(c) == ZeroIndex

\* the lastIndex exec leaves behind
LastIndexAfter(x) == IF x.found THEN x.end ELSE 0

\* findNextTag with the raw matches of its three execs
FindWith(searchBuffer, startIndex, sc, op, cl) ==
  [ret |-> EarliestMatch(searchBuffer, startIndex, EarliestOf(sc, op, cl)),
   lastIndex |-> [selfClosing |-> LastIndexAfter(sc), opening |-> LastIndexAfter(op),
                  closing |-> LastIndexAfter(cl), complete |-> 0, attributes |-> 0]]

\* findNextTag below resetAll: SELF_CLOSING is run from where resetAll left it,
\* OPENING and CLOSING after their lastIndex was set to 0
FindFrom(c, searchBuffer, startIndex) ==
  FindWith(searchBuffer, startIndex, ExecSelfClosing(searchBuffer, c.selfClosing),
           ExecOpening(searchBuffer, 0), ExecClosing(searchBuffer, 0))

FindNextTagStale(c, buf, startIndex) == FindFrom(c, Slice(buf, startIndex, Len(buf)), startIndex)

\* TagMatcher.findNextTag on the shared patterns
FindNextTagCall(c, buf, startIndex) ==
  FindFrom(resetAll(c), Slice(buf, startIndex, Len(buf)), startIndex)

\* whether findCompleteTags, from lastIndex i on, runs the loop of parseAttributes
RECURSIVE AnyAttributes(_, _)
AnyAttributesNext(buf, x) ==
  x.found /\ (Trim(x.attrs) # <<>> \/ AnyAttributes(buf, x.end))
AnyAttributes(buf, i) == AnyAttributesNext(buf, ExecComplete(buf, i))

\* TagMatcher.findCompleteTags on the shared patterns: COMPLETE.lastIndex = 0,
\* then exec until it finds nothing
FindCompleteTagsCall(c, buf) ==
  [ret |-> CompleteLoop(buf, 0),
   lastIndex |-> [c EXCEPT !.complete = 0,
                           !.attributes = IF AnyAttributes(buf, 0) THEN 0 ELSE @]]

\* TagMatcher.parseAttributes on the shared patterns: ATTRIBUTES.lastIndex = 0,
\* then exec until it finds nothing
ParseAttributesCall(c, attributesStr) ==
  [ret |-> parseAttributes(attributesStr),
   lastIndex |-> IF Trim(attributesStr) = <<>> THEN c ELSE [c EXCEPT !.attributes = 0]]

(***************************************************************************)
(* Tag definitions.  A definition is [validateContent, transformContent,   *)
(* defaultContent, defaultAttributes, allowSelfClosing (an absent field is *)
(* TRUE, its default)]; the validators and transformers are                *)
(* named: "none" is an absent field.  Callbacks and observers are taken    *)
(* to return normally.                                                     *)
(***************************************************************************)
Definition(v, t) ==
  [validateContent |-> v, transformContent |-> t, defaultContent |-> <<>>,
   defaultAttributes |-> Undefined, allowSelfClosing |-> TRUE]

\* ContentValidators.minLength(MinLen): TRUE, or the failure message
minLength(content) == Len(content) >= MinLen

\* TagValidator.validate: the error it throws, or "none"
validate(tag, definition) ==
  IF definition.validateContent = "minLength" /\ tag.content # <<>>
     /\ ~minLength(tag.content)
  THEN "CONTENT_VALIDATION_FAILED"
  ELSE "none"

\* TagTransformer.transform: [content, err]; "throws" is a
\* ContentTransformers.custom transformer whose function throws
transform(tag, definition) ==
  IF definition.transformContent = "none" \/ tag.content = <<>>
  THEN [content |-> tag.content, err |-> "none"]
  ELSE IF definition.transformContent = "toUpperCase"
       THEN [content |-> ToUpperCase(tag.content), err |-> "none"]
       ELSE [content |-> tag.content, err |-> "TRANSFORMATION_FAILED"]

\* the spread {...a, ...b} of two attribute objects
Spread(a, b) ==
  Attrs([n \in DOMAIN a.map \cup DOMAIN b.map |->
           IF n \in DOMAIN b.map THEN b.map[n] ELSE a.map[n]])

\* TagTransformer.applyDefaults: the tag with defaults applied
applyDefaults(tag, definition) ==
  [tag EXCEPT
     !.content = IF definition.defaultContent # <<>> /\ Trim(tag.content) = <<>>
                 THEN definition.defaultContent ELSE tag.content,
     !.attributes = IF definition.defaultAttributes.present
                    THEN Spread(definition.defaultAttributes, tag.attributes)
                    ELSE tag.attributes]

(***************************************************************************)
(* StreamParser.  The engine is threaded through the operators as a record *)
(* e = [buffer, total, state, stats, tagStack, currentDepth, currentPath,  *)
(* heap, events, err, errContext].  e.err # "none" is an exception in       *)
(* flight, e.errContext its ParserError.context: every statement after the *)
(* throwing one is skipped until a catch clears it.                        *)
(* heap[id] is the NestedTag object with identity id; a stack entry and a  *)
(* children list hold ids, as the source holds references.                 *)
(***************************************************************************)
\* ParserError.context when the error carries none
NoContext == [expected |-> <<>>, actual |-> <<>>]

Ev(type, tagName, content, attributes, depth, path, code, id, children) ==
  [type |-> type, tagName |-> tagName, content |-> content, attributes |-> attributes,
   depth |-> depth, path |-> path, code |-> code, id |-> id, children |-> children,
   errContext |-> NoContext]

\* EventEmitter.emit of a notification that carries a tag
TagEv(type, tag, id) ==
  Ev(type, tag.tagName, tag.content, tag.attributes, tag.depth, tag.path, "none", id,
     tag.children)

\* EventEmitter.emit of a notification that carries no tag: n is its count, if any
PlainEv(type, n) == Ev(type, <<>>, <<>>, Undefined, n, <<>>, "none", 0, <<>>)

Emit(e, ev) == [e EXCEPT !.events = Append(@, ev)]

Throw(e, code) == [e EXCEPT !.err = code, !.errContext = NoContext]

ThrowMismatchedSwapped(e, expected, actual) ==
  [e EXCEPT !.err = "MISMATCHED_CLOSING_TAG",
            !.errContext = [expected |-> actual, actual |-> expected]]

\* throw ParserError.fromMismatchedClosing(expected, actual)
ThrowMismatched(e, expected, actual) ==
  [e EXCEPT !.err = "MISMATCHED_CLOSING_TAG",
            !.errContext = [expected |-> expected, actual |-> actual]]

\* StreamParser.initializeStats
initializeStats ==
  [totalTagsParsed |-> 0, totalBytesProcessed |-> 0, errorCount |-> 0, bufferSize |-> 0,
   state |-> "IDLE", registeredTagsCount |-> 0, maxDepthReached |-> 0,
   totalNestedTags |-> 0]

\* StreamParser.updateStats
updateStats(e) ==
  Emit([e EXCEPT !.stats = [@ EXCEPT !.totalBytesProcessed = e.total,
                                      !.bufferSize = Len(e.buffer),
                                      !.registeredTagsCount = Cardinality(DOMAIN tagRegistry)]],
       PlainEv("stats_updated", 0))

\* StreamParser.emitError; context is the chunk or the fullMatch of the match.  The
\* event records, as depth and path, what getCurrentDepth() and getCurrentPath()
\* return to the observer while it runs.
emitError(e, code, tagName, context) ==
  Emit([e EXCEPT !.errContext = NoContext],
       [Ev("parse_error", tagName, context, Undefined, e.currentDepth, e.currentPath,
           code, 0, <<>>) EXCEPT !.errContext = e.errContext])

\* StreamParser.getCurrentParent: the id of the top entry's tag, 0 for undefined
getCurrentParent(e) ==
  IF Len(e.tagStack) > 0 THEN e.tagStack[Len(e.tagStack)].tag ELSE 0

\* StreamParser.buildPath
buildPath(e, tagName) ==
  IF e.currentPath # <<>> THEN e.currentPath \o <<"/">> \o tagName ELSE tagName

\* definition?.defaultContent || ''
DefaultContent(tagName) ==
  IF tagName \in DOMAIN tagRegistry THEN tagRegistry[tagName].defaultContent ELSE <<>>

\* definition?.defaultAttributes
DefaultAttributes(tagName) ==
  IF tagName \in DOMAIN tagRegistry THEN tagRegistry[tagName].defaultAttributes
  ELSE Undefined

\* the NestedTag literal of handleOpeningTag and handleSelfClosingTag
NewTag(e, tagMatch, selfClosing) ==
  [tagName |-> tagMatch.tagName,
   content |-> DefaultContent(tagMatch.tagName),
   children |-> <<>>,
   attributes |-> Spread(DefaultAttributes(tagMatch.tagName), tagMatch.attributes),
   parent |-> getCurrentParent(e),
   path |-> buildPath(e, tagMatch.tagName),
   depth |-> e.currentDepth + 1,
   isSelfClosing |-> selfClosing]

\* currentParent.children.push(tag): the new object gets the next identity
PushChildFirst(h, tag) ==
  IF tag.parent # 0 THEN [h EXCEPT ![tag.parent].children = <<Len(h)>> \o @] ELSE h

PushChild(h, tag) ==
  IF tag.parent # 0 THEN [h EXCEPT ![tag.parent].children = Append(@, Len(h))] ELSE h

AddTag(e, tag) == [e EXCEPT !.heap = PushChild(Append(@, tag), tag)]

\* handleOpeningTag below its depth check: newTag is the NestedTag literal
OpenTag(e, tagMatch, newTag) ==
  Emit(Emit([AddTag(e, newTag) EXCEPT
               !.currentDepth = @ + 1,
               !.currentPath = newTag.path,
               !.stats = [@ EXCEPT
                  !.maxDepthReached =
                     IF @ > e.currentDepth + 1 THEN @ ELSE e.currentDepth + 1,
                  !.totalNestedTags = @ + 1],
               !.tagStack = Append(@, [tag |-> Len(e.heap) + 1,
                                       startIndex |-> tagMatch.startIndex,
                                       depth |-> e.currentDepth + 1,
                                       path |-> newTag.path])],
            TagEv("tag_opened", newTag, Len(e.heap) + 1)),
       TagEv("tag_started", newTag, Len(e.heap) + 1))

handleOpeningTagNoLimit(e, tagMatch) == OpenTag(e, tagMatch, NewTag(e, tagMatch, FALSE))

\* StreamParser.handleOpeningTag
handleOpeningTag(e, tagMatch) ==
  IF e.currentDepth >= config.maxDepth THEN Throw(e, "MAX_DEPTH_EXCEEDED")
  ELSE OpenTag(e, tagMatch, NewTag(e, tagMatch, FALSE))

\* TagValidator.validate under `if (definition)`
Validated(tag) ==
  IF tag.tagName \in DOMAIN tagRegistry THEN validate(tag, tagRegistry[tag.tagName])
  ELSE "none"

\* TagTransformer.transform under `if (definition)`
Transformed(tag) ==
  IF tag.tagName \in DOMAIN tagRegistry THEN transform(tag, tagRegistry[tag.tagName])
  ELSE [content |-> tag.content, err |-> "none"]

\* the subtree_completed notification of completeTag
EmitSubtree(e, id) ==
  IF Len(e.heap[id].children) > 0 THEN Emit(e, TagEv("subtree_completed", e.heap[id], id))
  ELSE e

\* the notifications of completeTag
EmitCompleted(e, id) ==
  EmitSubtree(Emit(Emit(e, TagEv("tag_closed", e.heap[id], id)),
                   TagEv("tag_completed", e.heap[id], id)), id)

\* completeTag with the outcome verr of the validator and t of the transformer
CompleteWith(e, id, verr, t) ==
  IF verr # "none" THEN Throw(e, verr)
  ELSE IF t.err # "none" THEN Throw(e, t.err)
  ELSE EmitCompleted([e EXCEPT !.heap[id].content = t.content,
                               !.stats.totalTagsParsed = @ + 1], id)

\* StreamParser.completeTag on the tag object id
completeTag(e, id) == CompleteWith(e, id, Validated(e.heap[id]), Transformed(e.heap[id]))

\* the depth and path update after completeTag: skipped when it threw
AfterComplete(e) ==
  IF e.err # "none" THEN e
  ELSE [e EXCEPT !.currentDepth = @ - 1,
                 !.currentPath = IF Len(e.tagStack) > 0
                                 THEN e.tagStack[Len(e.tagStack)].path ELSE <<>>]

\* the pop, the completion and the update that handleClosingTag and autoCloseTag
\* share
PopAndComplete(e) ==
  AfterComplete(completeTag([e EXCEPT !.tagStack = SubSeq(@, 1, Len(@) - 1)],
                            e.tagStack[Len(e.tagStack)].tag))

\* StreamParser.autoCloseTag
autoCloseTag(e) == IF Len(e.tagStack) = 0 THEN e ELSE PopAndComplete(e)

\* the auto-close loop of handleClosingTag
RECURSIVE AutoCloseUntil(_, _)
AutoCloseUntil(e, tagName) ==
  IF e.err = "none" /\ Len(e.tagStack) > 0
     /\ e.heap[e.tagStack[Len(e.tagStack)].tag].tagName # tagName
  THEN AutoCloseUntil(autoCloseTag(e), tagName)
  ELSE e

\* handleClosingTag on a non-empty stack, up to its pop
CloseIntervening(e, tagMatch) ==
  IF e.heap[e.tagStack[Len(e.tagStack)].tag].tagName # tagMatch.tagName
  THEN IF config.autoCloseUnclosed THEN AutoCloseUntil(e, tagMatch.tagName)
       ELSE ThrowMismatched(e, e.heap[e.tagStack[Len(e.tagStack)].tag].tagName,
                            tagMatch.tagName)
  ELSE e

\* handleClosingTag from its pop on.  Popping an emptied stack yields undefined,
\* and reading its `tag` is a TypeError.
CloseTop(e) ==
  IF e.err # "none" THEN e
  ELSE IF Len(e.tagStack) = 0 THEN Throw(e, "TypeError")
  ELSE PopAndComplete(e)

\* StreamParser.handleClosingTag
handleClosingTag(e, tagMatch) ==
  IF Len(e.tagStack) = 0 THEN Throw(e, "MISMATCHED_CLOSING_TAG")
  ELSE CloseTop(CloseIntervening(e, tagMatch))

\* StreamParser.handleSelfClosingTag
handleSelfClosingTag(e, tagMatch) ==
  completeTag(AddTag(e, NewTag(e, tagMatch, TRUE)), Len(e.heap) + 1)

\* StreamParser.processTagNested
processTagNested(e, tagMatch) ==
  CASE tagMatch.type = "opening" -> handleOpeningTag(e, tagMatch)
    [] tagMatch.type = "closing" -> handleClosingTag(e, tagMatch)
    [] tagMatch.type = "self-closing" -> handleSelfClosingTag(e, tagMatch)

\* handleTextContent with the current parent at hand
AddText(e, textContent, currentParent) ==
  IF currentParent = 0 THEN e
  ELSE Emit([e EXCEPT !.heap[currentParent].content = @ \o textContent],
            Ev("tag_content_update", e.heap[currentParent].tagName, textContent,
               Undefined, 0, <<>>, "none", currentParent, <<>>))

\* StreamParser.handleTextContent
handleTextContent(e, textContent) ==
  IF textContent = <<>> \/ Trim(textContent) = <<>> THEN e
  ELSE AddText(e, textContent, getCurrentParent(e))

SetBuffer(e, b) == [e EXCEPT !.buffer = b.buffer, !.total = b.total]
BufOf(e) == [buffer |-> e.buffer, total |-> e.total]

\* the text between lastProcessedIndex and the next tag, if any
TextBefore(e, buf, lastProcessedIndex, nextTag) ==
  IF nextTag.startIndex > lastProcessedIndex
  THEN handleTextContent(e, Slice(buf, lastProcessedIndex, nextTag.startIndex))
  ELSE e

\* the while loop of processBufferNested over the snapshot buf:
\* [e, lastProcessedIndex].  A throw leaves the loop with the index unchanged.
RECURSIVE NestedLoop(_, _, _)
NestedAfter(e, buf, lastProcessedIndex, nextTag) ==
  IF e.err # "none" THEN [e |-> e, lastProcessedIndex |-> lastProcessedIndex]
  ELSE NestedLoop(e, buf, nextTag.endIndex)
NestedStep(e, buf, lastProcessedIndex, nextTag) ==
  IF ~nextTag.found THEN [e |-> e, lastProcessedIndex |-> lastProcessedIndex]
  ELSE NestedAfter(processTagNested(TextBefore(e, buf, lastProcessedIndex, nextTag),
                                    nextTag),
                   buf, lastProcessedIndex, nextTag)
NestedLoop(e, buf, lastProcessedIndex) ==
  IF lastProcessedIndex >= Len(buf) THEN [e |-> e, lastProcessedIndex |-> lastProcessedIndex]
  ELSE NestedStep(e, buf, lastProcessedIndex, findNextTag(buf, lastProcessedIndex))

ConsumeNothing(r) == r.e

ConsumeAll(r) == IF r.e.err # "none" THEN r.e ELSE SetBuffer(r.e, clear(BufOf(r.e)))

\* the end of processBufferNested: the processed prefix leaves the buffer, unless
\* the loop threw
ConsumeProcessed(r) ==
  IF r.e.err # "none" THEN r.e
  ELSE IF r.lastProcessedIndex > 0
       THEN SetBuffer(r.e, consume(BufOf(r.e), r.lastProcessedIndex))
       ELSE r.e

\* StreamParser.processBufferNested
processBufferNested(e) == ConsumeProcessed(NestedLoop(e, e.buffer, 0))

\* processTagFlat after validation and transformation
FlatChecked(e, tag, verr, t) ==
  IF verr # "none" THEN Throw(e, verr)
  ELSE IF t.err # "none" THEN Throw(e, t.err)
  ELSE Emit(e, Ev("tag_completed", tag.tagName, t.content, tag.attributes, 0, <<>>,
                  "none", 0, <<>>))

\* processTagFlat from applyDefaults on
FlatDefined(e, tag, definition) ==
  FlatChecked(e, tag, validate(tag, definition), transform(tag, definition))

\* StreamParser.processTagFlat: e.err is set when it threw
processTagFlat(e, match) ==
  IF match.tagName \notin DOMAIN tagRegistry THEN Throw(e, "UNKNOWN_TAG")
  ELSE FlatDefined(Emit(e, Ev("tag_started", match.tagName, <<>>, match.attributes, 0,
                              <<>>, "none", 0, <<>>)),
                   applyDefaults([tagName |-> match.tagName,
                                  content |-> IF config.trimWhitespace
                                              THEN Trim(match.content) ELSE match.content,
                                  attributes |-> match.attributes],
                                 tagRegistry[match.tagName]),
                   tagRegistry[match.tagName])

\* the body of the for loop of processBufferFlat: r is the engine after
\* processTagFlat; a failing match is reported and the loop goes on
FlatTried(r, match) ==
  IF r.err = "none" THEN [r EXCEPT !.stats.totalTagsParsed = @ + 1]
  ELSE emitError([r EXCEPT !.err = "none"], r.err, match.tagName, match.fullMatch)

\* the for loop of processBufferFlat from match i on: [e, parsed]
RECURSIVE FlatLoop(_, _, _, _)
FlatNextStop(r, completeTags, i, parsed) ==
  IF r.err = "none"
  THEN FlatLoop(FlatTried(r, completeTags[i]), completeTags, i + 1, parsed + 1)
  ELSE [e |-> FlatTried(r, completeTags[i]), parsed |-> parsed]

FlatNext(r, completeTags, i, parsed) ==
  FlatLoop(FlatTried(r, completeTags[i]), completeTags, i + 1,
           IF r.err = "none" THEN parsed + 1 ELSE parsed)
FlatLoop(e, completeTags, i, parsed) ==
  IF i > Len(completeTags) THEN [e |-> e, parsed |-> parsed]
  ELSE FlatNext(processTagFlat(e, completeTags[i]), completeTags, i, parsed)

removeProcessedContentFirst(e, matches) ==
  IF Len(matches) = 0 THEN e
  ELSE SetBuffer(e, consume(BufOf(e), matches[1].endIndex))

\* StreamParser.removeProcessedContent
removeProcessedContent(e, matches) ==
  IF Len(matches) = 0 THEN e
  ELSE SetBuffer(e, consume(BufOf(e), matches[Len(matches)].endIndex))

\* the notifications of processBufferFlat when a tag was parsed
FlatReport(e, parsed) ==
  IF parsed > 0
  THEN Emit(Emit(e, PlainEv("parsing_complete", parsed)),
            PlainEv("document_completed", parsed))
  ELSE e

\* processBufferFlat after its loop
FlatDone(r, completeTags) ==
  updateStats(FlatReport(removeProcessedContent(r.e, completeTags), r.parsed))

FlatMatches(e, completeTags) == FlatDone(FlatLoop(e, completeTags, 1, 0), completeTags)

\* StreamParser.processBufferFlat
processBufferFlat(e) == FlatMatches(e, findCompleteTags(e.buffer))

\* the end of the try block of parse
Processed(e) == IF e.err # "none" THEN e ELSE [e EXCEPT !.state = "COMPLETED"]

\* the try block of parse after bufferManager.append returned a
Appended(e, a) ==
  IF a.err # "none" THEN Throw(e, a.err)
  ELSE Processed(IF config.enableNested THEN processBufferNested(SetBuffer(e, a))
                 ELSE processBufferFlat(SetBuffer(e, a)))

\* the try block of StreamParser.parse
ParseBody(e, chunk) ==
  Appended([e EXCEPT !.state = "PARSING"], append(BufOf(e), chunk, config.maxBufferSize))

\* the catch clause of parse: every exception becomes a parse_error; an error that
\* is no ParserError is wrapped as INVALID_TAG_FORMAT
Caught(r, chunk) ==
  IF r.err = "none" THEN r
  ELSE emitError([r EXCEPT !.state = "ERROR",
                           !.stats.errorCount = @ + 1,
                           !.err = "none"],
                 IF r.err = "TypeError" THEN "INVALID_TAG_FORMAT" ELSE r.err,
                 <<>>, chunk)

parseNoCatch(e, chunk) == ParseBody(e, chunk)

\* StreamParser.parse
parse(e, chunk) == Caught(ParseBody(e, chunk), chunk)

resetKeepStats(e) ==
  Emit([Emit(SetBuffer(e, clear(BufOf(e))), PlainEv("buffer_cleared", 0))
          EXCEPT !.tagStack = <<>>, !.currentDepth = 0, !.currentPath = <<>>,
                 !.state = "IDLE"],
       PlainEv("parser_reset", 0))

\* StreamParser.reset
reset(e) ==
  Emit([Emit(SetBuffer(e, clear(BufOf(e))), PlainEv("buffer_cleared", 0))
          EXCEPT !.tagStack = <<>>, !.currentDepth = 0, !.currentPath = <<>>,
                 !.state = "IDLE", !.stats = initializeStats],
       PlainEv("parser_reset", 0))

\* the auto-close loop of finalize
RECURSIVE AutoCloseAll(_)
AutoCloseAll(e) ==
  IF e.err = "none" /\ Len(e.tagStack) > 0 THEN AutoCloseAll(autoCloseTag(e)) ELSE e

\* the number of root tags finalize collects before it closes anything
RootTags(e) == Cardinality({i \in 1..Len(e.tagStack) : e.tagStack[i].depth = 1})

\* the document_completed notification of finalize
ReportRoots(e, roots) ==
  IF roots > 0 THEN Emit(e, PlainEv("document_completed", roots)) ELSE e

\* finalize after its auto-close loop: nothing catches what completeTag throws
Finalized(e, roots) ==
  IF e.err # "none" THEN e
  ELSE Emit(ReportRoots(updateStats([e EXCEPT !.state = "COMPLETED"]), roots),
            PlainEv("parsing_finalized", 0))

\* StreamParser.finalize
finalize(e) == Finalized(AutoCloseAll(e), RootTags(e))

(***************************************************************************)
(* The engine as state.                                                    *)
(***************************************************************************)
Eng ==
  [buffer |-> buffer, total |-> totalBytesProcessed, state |-> state, stats |-> stats,
   tagStack |-> tagStack, currentDepth |-> currentDepth, currentPath |-> currentPath,
   heap |-> heap, events |-> events, err |-> "none", errContext |-> NoContext]

\* the engine after construction
NewEng ==
  [buffer |-> <<>>, total |-> 0, state |-> "IDLE", stats |-> initializeStats,
   tagStack |-> <<>>, currentDepth |-> 0, currentPath |-> <<>>,
   heap |-> <<>>, events |-> <<>>, err |-> "none", errContext |-> NoContext]

SetEng(e) ==
  /\ buffer' = e.buffer
  /\ totalBytesProcessed' = e.total
  /\ state' = e.state
  /\ stats' = e.stats
  /\ tagStack' = e.tagStack
  /\ currentDepth' = e.currentDepth
  /\ currentPath' = e.currentPath
  /\ heap' = e.heap
  /\ events' = e.events

NoCall ==
  [op |-> "none", threw |-> FALSE, err |-> "none", chunk |-> <<>>, from |-> 0,
   stack |-> <<>>, before |-> <<>>, prevOp |-> "none", prevState |-> "IDLE",
   prevErrors |-> 0, prevDepth |-> 0]

\* the outcome of an engine call: whether it threw, where its events start, and
\* what the engine was like when the call was made: the tag objects on the stack,
\* bottom first, the buffer, the state, the error count, the depth and the call
\* before it
Outcome(op, e, chunk) ==
  [op |-> op, threw |-> e.err # "none", err |-> e.err, chunk |-> chunk,
   from |-> Len(events), stack |-> [i \in 1..Len(tagStack) |-> tagStack[i].tag],
   before |-> buffer, prevOp |-> last.op, prevState |-> state,
   prevErrors |-> stats.errorCount, prevDepth |-> currentDepth]

NoMatcherCall ==
  [who |-> "none", op |-> "none", arg |-> <<>>, startIndex |-> 0, entry |-> ZeroIndex,
   ret |-> <<>>]

NoBufCall ==
  [op |-> "none", arg |-> <<>>, n |-> 0, m |-> 0, before |-> <<>>, beforeTotal |-> 0,
   err |-> "none", ret |-> <<>>]


(***************************************************************************)
(* Inputs.                                                                 *)
(***************************************************************************)
OpenA == <<"<", "a", ">">>
CloseA == <<"<", "/", "a", ">">>
OpenB == <<"<", "b", ">">>
OpenBX == <<"<", "b", ">", "x">>
CloseB == <<"<", "/", "b", ">">>
SelfB == <<"<", "b", " ", "/", ">">>
OpenBAttr == <<"<", "b", " ", "y", "=", "1", ">">>
TextX == <<"x">>
TextSpace == <<" ">>
CloseUpperA == <<"<", "/", "A", ">">>
PairB == OpenB \o TextX \o CloseB

NameA == <<"a">>
NameB == <<"b">>
NameUpperA == <<"A">>

\* the chunks of the engine runs
Chunks == {OpenA, CloseA, CloseUpperA, OpenBX, CloseB, TextX, TextSpace, SelfB}

\* the tokens the texts of the split runs are made of
Tokens == {OpenA, CloseA, OpenBAttr, CloseB, TextX, SelfB, PairB}

RECURSIVE TextsOf(_)
TextsOf(n) ==
  IF n = 0 THEN {<<>>}
  ELSE LET shorter == TextsOf(n - 1)
       IN shorter \cup {t \o k : t \in shorter, k \in Tokens}

Texts == TextsOf(MaxTokens)

Config(nested, autoClose, maxBufferSize) ==
  [caseSensitive |-> FALSE, trimWhitespace |-> TRUE, maxBufferSize |-> maxBufferSize,
   maxDepth |-> MaxDepth, autoCloseUnclosed |-> autoClose, enableNested |-> nested]

Configs ==
  {Config(FALSE, TRUE, MaxBufferSize), Config(TRUE, TRUE, MaxBufferSize),
   Config(TRUE, FALSE, MaxBufferSize)}

\* registries: a alone; a defined under the name 'A'; a and b with a content
\* validator; a with a transformer and b with a transformer that throws
Registries ==
  {[n \in {NameA} |-> Definition("none", "none")],
   [n \in {NameUpperA} |-> Definition("none", "none")],
   [n \in {NameA, NameB} |->
      IF n = NameA THEN Definition("none", "none") ELSE Definition("minLength", "none")],
   [n \in {NameA, NameB} |->
      IF n = NameA THEN Definition("none", "toUpperCase")
      ELSE Definition("none", "throws")]}

(***************************************************************************)
(* Spec: one engine, driven through parse, finalize and reset.             *)
(***************************************************************************)
InitEngine ==
  /\ buffer = <<>>
  /\ totalBytesProcessed = 0
  /\ state = "IDLE"
  \* every defineTag call ended in updateStats
  /\ stats = [initializeStats EXCEPT
               !.registeredTagsCount = Cardinality(DOMAIN tagRegistry)]
  /\ tagStack = <<>>
  /\ currentDepth = 0
  /\ currentPath = <<>>
  /\ heap = <<>>
  /\ events = <<>>
  /\ last = NoCall
  /\ calls = 0
  /\ bufLast = NoBufCall
  /\ lastIndex = ZeroIndex
  /\ matched = NoMatcherCall

Init ==
  /\ config \in Configs
  /\ tagRegistry \in Registries
  /\ text = <<>>
  /\ pos = 0
  /\ InitEngine

Call(op, e, chunk) ==
  /\ calls < MaxCalls
  /\ SetEng(e)
  /\ last' = Outcome(op, e, chunk)
  /\ calls' = calls + 1
  /\ UNCHANGED <<config, tagRegistry, bufLast, text, pos, lastIndex, matched>>

Parse(chunk) == Call("parse", parse(Eng, chunk), chunk)

Finalize == Call("finalize", finalize(Eng), <<>>)

Reset == Call("reset", reset(Eng), <<>>)

Next ==
  \/ \E chunk \in Chunks : Parse(chunk)
  \/ Finalize
  \/ Reset

Spec == Init /\ [][Next]_vars

(***************************************************************************)
(* SpecBuf: a BufferManager of capacity BufMax, called directly.           *)
(***************************************************************************)
BufChunks == {<<>>, <<"a">>, <<"b", "a">>, <<"a", "b", "a", "b">>}

InitBuf ==
  /\ config = Config(FALSE, TRUE, BufMax)
  /\ tagRegistry = [n \in {} |-> Definition("none", "none")]
  /\ text = <<>>
  /\ pos = 0
  /\ InitEngine

BufCall(op, b, arg, n, m, err, ret) ==
  /\ buffer' = b.buffer
  /\ totalBytesProcessed' = b.total
  /\ bufLast' = [op |-> op, arg |-> arg, n |-> n, m |-> m, before |-> buffer,
                 beforeTotal |-> totalBytesProcessed, err |-> err, ret |-> ret]
  /\ calls < BufOps
  /\ calls' = calls + 1
  /\ UNCHANGED <<config, tagRegistry, state, stats, tagStack, currentDepth, currentPath,
                 heap, events, last, text, pos, lastIndex, matched>>

BufAppend(chunk) ==
  LET r == append(Buf, chunk, config.maxBufferSize)
  IN BufCall("append", r, chunk, 0, 0, r.err, <<>>)

BufConsume(n) ==
  LET r == consume(Buf, n)
  IN BufCall("consume", r, <<>>, n, 0, "none", r.ret)

BufRemoveRange(n, m) ==
  BufCall("removeRange", removeRange(Buf, n, m), <<>>, n, m, "none", <<>>)

BufClear == BufCall("clear", clear(Buf), <<>>, 0, 0, "none", <<>>)

NextBuf ==
  \/ \E chunk \in BufChunks : BufAppend(chunk)
  \/ \E n \in -1..(BufMax + 1) : BufConsume(n)
  \/ \E n \in -1..(BufMax + 1), m \in -1..(BufMax + 1) : BufRemoveRange(n, m)
  \/ BufClear

SpecBuf == InitBuf /\ [][NextBuf]_vars

(***************************************************************************)
(* SpecSplit: one text, fed to parse in consecutive non-empty fragments of  *)
(* any length.  text[0 .. pos) is what the engine was given so far.        *)
(***************************************************************************)
\* DEFAULT_CONFIG.maxBufferSize: no text of the split runs overflows it
DefaultMaxBufferSize == 1048576

SplitConfigs ==
  {Config(TRUE, TRUE, DefaultMaxBufferSize), Config(FALSE, TRUE, DefaultMaxBufferSize)}

\* a with a transformer, b plain
SplitRegistry ==
  [n \in {NameA, NameB} |->
     IF n = NameA THEN Definition("none", "toUpperCase") ELSE Definition("none", "none")]

InitSplit ==
  /\ config \in SplitConfigs
  /\ tagRegistry = SplitRegistry
  /\ text \in Texts
  /\ pos = 0
  /\ InitEngine

FeedCall(e, chunk) ==
  /\ calls < MaxFragments
  /\ SetEng(e)
  /\ last' = Outcome("parse", e, chunk)
  /\ calls' = calls + 1
  /\ pos' = pos + Len(chunk)
  /\ UNCHANGED <<config, tagRegistry, bufLast, text, lastIndex, matched>>

\* parse(fragment) with the next k characters of the text
Feed(k) == FeedCall(parse(Eng, Slice(text, pos, pos + k)), Slice(text, pos, pos + k))

NextSplit == \E k \in 1..(Len(text) - pos) : Feed(k)

SpecSplit == InitSplit /\ [][NextSplit]_vars

(***************************************************************************)
(* SpecDoc: one text given to parse in a single call, followed by further  *)
(* chunks.  text is everything the engine was given so far.                *)
(***************************************************************************)
\* a configuration whose maxDepth lets three tags be open at once
DeepConfig == [Config(TRUE, TRUE, DefaultMaxBufferSize) EXCEPT !.maxDepth = MaxDepth + 1]

DocConfigs ==
  {Config(FALSE, TRUE, DefaultMaxBufferSize), Config(TRUE, TRUE, DefaultMaxBufferSize),
   Config(TRUE, FALSE, DefaultMaxBufferSize), DeepConfig}

\* a defaultContent that no chunk and no text carries
DefaultD == <<"d">>

\* defineTag({tagName: 'a', defaultContent: 'd'}) and
\* defineTag({tagName: 'b', allowSelfClosing: false})
DefaultRegistry ==
  [n \in {NameA, NameB} |->
     IF n = NameA THEN [Definition("none", "none") EXCEPT !.defaultContent = DefaultD]
     ELSE [Definition("none", "none") EXCEPT !.allowSelfClosing = FALSE]]

DocRegistries == Registries \cup {SplitRegistry, DefaultRegistry}

InitDoc ==
  /\ config \in DocConfigs
  /\ tagRegistry \in DocRegistries
  /\ text \in Texts
  /\ pos = 0
  /\ InitEngine

DocCall(e, chunk, given) ==
  /\ calls < MaxDocCalls
  /\ SetEng(e)
  /\ last' = Outcome("parse", e, chunk)
  /\ calls' = calls + 1
  /\ text' = given
  /\ pos' = Len(given)
  /\ UNCHANGED <<config, tagRegistry, bufLast, lastIndex, matched>>

\* parse(text) by the fresh engine
ParseDoc == calls = 0 /\ DocCall(parse(Eng, text), text, text)

\* parse(chunk) after it
ParseMore(chunk) == calls > 0 /\ DocCall(parse(Eng, chunk), chunk, text \o chunk)

NextDoc ==
  \/ ParseDoc
  \/ \E chunk \in Chunks : ParseMore(chunk)

SpecDoc == InitDoc /\ [][NextDoc]_vars

(***************************************************************************)
(* SpecMatch: two TagMatcher instances, called directly in any order on    *)
(* the one set of TagPatterns they share.                                  *)
(***************************************************************************)
SelfBTight == <<"<", "b", "/", ">">>
SelfBAttr == <<"<", "b", " ", "y", "=", "1", "/", ">">>

MatchTokens == {OpenA, CloseA, CloseUpperA, OpenBAttr, CloseB, TextX, SelfB, SelfBTight,
                SelfBAttr}

RECURSIVE StringsOf(_, _)
StringsOf(tokens, n) ==
  IF n = 0 THEN {<<>>}
  ELSE LET shorter == StringsOf(tokens, n - 1)
       IN shorter \cup {t \o k : t \in shorter, k \in tokens}

MatchTexts == StringsOf(MatchTokens, MaxMatchTokens)

Count42 == <<" ", "c", "o", "u", "n", "t", "=", "4", "2">>
Price1999 == <<" ", "p", "r", "i", "c", "e", "=", "1", "9", ".", "9", "9">>
ActiveTrue == <<" ", "a", "c", "t", "i", "v", "e", "=", "t", "r", "u", "e">>
DisabledFalse ==
  <<" ", "d", "i", "s", "a", "b", "l", "e", "d", "=", "f", "a", "l", "s", "e">>

AttributeTokens ==
  {Count42, Price1999, ActiveTrue, DisabledFalse,
   <<" ", "c", "o", "u", "n", "t">>,
   <<" ", "c", "o", "u", "n", "t", "=", "\"", "0", "4", "\"">>,
   <<" ", "c", "o", "u", "n", "t", "=", "'", "4", " ", "2", "'">>,
   <<" ", "p", "r", "i", "c", "e", "=", ".", "9", "0">>,
   <<" ", "p", "r", "i", "c", "e", "=", "1", ".", "2", ".", "4">>,
   <<" ", "a", "c", "t", "i", "v", "e", "=", "T", "r", "u", "e">>,
   <<" ", "a", "c", "t", "i", "v", "e", "=", "\"", "\"">>}

\* the attribute strings: up to MaxAttributes tokens, and the four of the example
AttributeTexts ==
  StringsOf(AttributeTokens, MaxAttributes)
    \cup {Tail(Count42 \o Price1999 \o ActiveTrue \o DisabledFalse)}

\* the two instances call in turn
Turn == IF calls % 2 = 0 THEN "first" ELSE "second"

InitMatch ==
  /\ config = Config(TRUE, TRUE, DefaultMaxBufferSize)
  /\ tagRegistry = SplitRegistry
  /\ text = <<>>
  /\ pos = 0
  /\ InitEngine

MatcherCall(who, op, arg, startIndex, r) ==
  /\ calls < MaxMatcherCalls
  /\ calls' = calls + 1
  /\ lastIndex' = r.lastIndex
  /\ matched' = [who |-> who, op |-> op, arg |-> arg, startIndex |-> startIndex,
                 entry |-> lastIndex, ret |-> r.ret]
  /\ UNCHANGED <<bufVars, config, tagRegistry, state, stats, tagStack, currentDepth,
                 currentPath, heap, events, last, splitVars>>

FindNextTag(who, buf, startIndex) ==
  MatcherCall(who, "findNextTag", buf, startIndex,
              FindNextTagCall(lastIndex, buf, startIndex))

FindCompleteTags(who, buf) ==
  MatcherCall(who, "findCompleteTags", buf, 0, FindCompleteTagsCall(lastIndex, buf))

ParseAttributes(who, attributesStr) ==
  MatcherCall(who, "parseAttributes", attributesStr, 0,
              ParseAttributesCall(lastIndex, attributesStr))

NextMatch ==
  \/ \E buf \in MatchTexts, startIndex \in 0..MaxStart : FindNextTag(Turn, buf, startIndex)
  \/ \E buf \in MatchTexts : FindCompleteTags(Turn, buf)
  \/ \E attributesStr \in AttributeTexts : ParseAttributes(Turn, attributesStr)

SpecMatch == InitMatch /\ [][NextMatch]_vars



(***************************************************************************)
(* Claims.                                                                 *)
(***************************************************************************)
LastEvent == events[Len(events)]

\* the notifications the last engine call emitted
NewEvents == SubSeq(events, last.from + 1, Len(events))

\* C1: parse(chunk) returns normally in every engine state and for every chunk:
\* a failure (overflow, depth ceiling, mismatched closer, validation,
\* transformation) ends the call in state ERROR with a parse_error notification
\* and no exception reaches the caller.
C1_ParseReturnsNormally ==
  last.op = "parse" =>
    /\ ~last.threw
    /\ state \in {"COMPLETED", "ERROR"}
    /\ state = "ERROR" => (events # <<>> /\ LastEvent.type = "parse_error")

C1_Witness ==
  /\ last.op = "parse"
  /\ ~last.threw
  /\ state = "ERROR"
  /\ LastEvent.type = "parse_error"
  /\ LastEvent.code = "CONTENT_VALIDATION_FAILED"

\* C2: after every append, consume, removeRange and clear call the buffer is
\* no longer than the configured maximum.
C2_BufferWithinMax == Len(buffer) <= config.maxBufferSize

C2_Witness ==
  /\ bufLast.op = "append"
  /\ bufLast.err = "BUFFER_OVERFLOW"
  /\ Len(buffer) = config.maxBufferSize

\* C3: an append that would exceed the maximum fails with BufferOverflow and
\* leaves buffer and total-processed counter as they were; an append that fits
\* adds the chunk and raises the counter by the chunk length.
C3_AppendAtomic ==
  bufLast.op = "append" =>
    IF Len(bufLast.before) + Len(bufLast.arg) > config.maxBufferSize
    THEN /\ bufLast.err = "BUFFER_OVERFLOW"
         /\ buffer = bufLast.before
         /\ totalBytesProcessed = bufLast.beforeTotal
    ELSE /\ bufLast.err = "none"
         /\ buffer = bufLast.before \o bufLast.arg
         /\ totalBytesProcessed = bufLast.beforeTotal + Len(bufLast.arg)

C3_Witness ==
  /\ bufLast.op = "append"
  /\ bufLast.err = "BUFFER_OVERFLOW"
  /\ bufLast.before # <<>>
  /\ bufLast.beforeTotal > Len(bufLast.before)

\* one parse() call on everything fed so far, by a fresh engine
Whole == parse(NewEng, Slice(text, 0, pos))

HasParseError(evs) == \E i \in 1..Len(evs) : evs[i].type = "parse_error"

IsOpenedOrCompleted(ev) == ev.type \in {"tag_opened", "tag_completed"}

IsCompleted(ev) == ev.type = "tag_completed"

\* what C4 compares of a notification
NestedView(ev) ==
  [type |-> ev.type, tagName |-> ev.tagName, content |-> ev.content,
   attributes |-> ev.attributes, depth |-> ev.depth, path |-> ev.path]

\* what C5 compares of a notification
FlatView(ev) ==
  [tagName |-> ev.tagName, content |-> ev.content, attributes |-> ev.attributes]

NestedViews(evs) ==
  [i \in 1..Len(SelectSeq(evs, IsOpenedOrCompleted)) |->
     NestedView(SelectSeq(evs, IsOpenedOrCompleted)[i])]

FlatViews(evs) ==
  [i \in 1..Len(SelectSeq(evs, IsCompleted)) |-> FlatView(SelectSeq(evs, IsCompleted)[i])]

\* C4: nested mode: when one parse() call on a text raises no parse_error, feeding
\* the text in consecutive fragments yields the same tag_opened and tag_completed
\* notifications (name, content, attributes, depth, path), the same depth and
\* the same remaining buffer as the one call.
C4_NestedSplitEquivalence ==
  (config.enableNested /\ ~HasParseError(Whole.events)) =>
    /\ NestedViews(events) = NestedViews(Whole.events)
    /\ currentDepth = Whole.currentDepth
    /\ buffer = Whole.buffer

\* a tag with an attribute and content, fed in fragments that cut through the
\* markup; the last fragment is the end of the closer
C4_Witness ==
  /\ config.enableNested
  /\ calls = 3
  /\ text = OpenBAttr \o TextX \o CloseB
  /\ pos = Len(text)
  /\ last.chunk = <<"b", ">">>
  /\ ~HasParseError(Whole.events)
  /\ \E i \in 1..Len(events) :
       /\ events[i].type = "tag_completed"
       /\ events[i].path = NameB
       /\ events[i].content = TextX
       /\ events[i].attributes = Attrs([n \in {<<"y">>} |-> NumVal(1, 0)])

\* C5: flat mode: feeding a text in consecutive fragments delivers the same
\* tag_completed records (name, content, attributes) as one parse() call on
\* the whole text.
C5_FlatSplitEquivalence ==
  ~config.enableNested => FlatViews(events) = FlatViews(Whole.events)

\* the tag names of the stack entries, bottom to top, joined by "/"
RECURSIVE JoinNames(_, _)
JoinNames(stack, n) ==
  IF n = 0 THEN <<>>
  ELSE IF n = 1 THEN heap[stack[1].tag].tagName
  ELSE JoinNames(stack, n - 1) \o <<"/">> \o heap[stack[n].tag].tagName

\* C6: nested mode: after every parse(), finalize() or reset() call,
\* getCurrentDepth() is the number of stack entries, the depth recorded on the
\* top entry is the stack length, and getCurrentPath() is the stack's tag names
\* joined by "/".
C6_DepthAndPathMatchStack ==
  (config.enableNested /\ last.op # "none") =>
    /\ currentDepth = Len(tagStack)
    /\ tagStack # <<>> => tagStack[Len(tagStack)].depth = Len(tagStack)
    /\ currentPath = JoinNames(tagStack, Len(tagStack))

\* the match of the opener <name>
OpenerOf(name) == findNextTag(<<"<">> \o name \o <<">">>, 0)

\* C7: nested mode: an opening tag raises MaxDepthExceeded exactly when it is
\* processed while the current depth equals maxDepth; every opener that was
\* accepted was processed at a smaller depth, every MaxDepthExceeded was reported
\* at depth maxDepth, and getCurrentDepth() never exceeds maxDepth.
C7_DepthCeiling ==
  config.enableNested =>
    /\ currentDepth <= config.maxDepth
    /\ \A name \in {NameA, NameB} :
         (handleOpeningTag(Eng, OpenerOf(name)).err = "MAX_DEPTH_EXCEEDED")
           <=> (currentDepth = config.maxDepth)
    /\ \A i \in 1..Len(events) :
         /\ events[i].type = "tag_opened" => events[i].depth <= config.maxDepth
         /\ events[i].code = "MAX_DEPTH_EXCEEDED" => events[i].depth = config.maxDepth

\* maxDepth openers of a are on the stack and the next one was refused
C7_Witness ==
  /\ config.enableNested
  /\ last.op = "parse"
  /\ last.chunk = OpenA
  /\ LastEvent.code = "MAX_DEPTH_EXCEEDED"
  /\ Len(tagStack) = config.maxDepth
  /\ \A i \in 1..Len(tagStack) : heap[tagStack[i].tag].tagName = NameA

\* the tag objects of the tag_completed notifications in evs, in order
RECURSIVE CompletedIds(_)
CompletedIds(evs) ==
  IF evs = <<>> THEN <<>>
  ELSE IF Head(evs).type = "tag_completed" THEN <<Head(evs).id>> \o CompletedIds(Tail(evs))
  ELSE CompletedIds(Tail(evs))

Reverse(s) == [i \in 1..Len(s) |-> s[Len(s) + 1 - i]]

\* C8: nested mode: finalize() completes every record on the stack, innermost
\* first, with a tag_completed for each, and leaves an empty stack, depth 0 and
\* path ''.
C8_FinalizeClosesAll ==
  (config.enableNested /\ last.op = "finalize") =>
    /\ CompletedIds(NewEvents) = Reverse(last.stack)
    /\ tagStack = <<>>
    /\ currentDepth = 0
    /\ currentPath = <<>>

\* C9: finalize() returns normally in every engine state: a validator or
\* transformer that rejects an auto-closed record is reported as parse_error and
\* nothing propagates to the caller.
C9_FinalizeReturnsNormally == last.op = "finalize" => ~last.threw

\* everything of the engine but its notifications
Fields(e) ==
  [buffer |-> e.buffer, total |-> e.total, state |-> e.state, stats |-> e.stats,
   tagStack |-> e.tagStack, currentDepth |-> e.currentDepth,
   currentPath |-> e.currentPath, heap |-> e.heap]

\* C10: after reset() the counters of getStats() are zero, the buffer is empty,
\* depth is 0, path is '' and the state is idle, whatever happened before; a
\* second reset() changes nothing.
C10_ResetClears ==
  last.op = "reset" =>
    /\ stats.totalTagsParsed = 0
    /\ stats.totalBytesProcessed = 0
    /\ stats.errorCount = 0
    /\ stats.maxDepthReached = 0
    /\ stats.totalNestedTags = 0
    /\ Len(buffer) = 0
    /\ currentDepth = 0
    /\ currentPath = <<>>
    /\ state = "IDLE"
    /\ Fields(reset(Eng)) = Fields(Eng)

\* a reset after tags were opened and completed and an error was reported
C10_Witness ==
  /\ last.op = "reset"
  /\ totalBytesProcessed > 0
  /\ \E i \in 1..Len(events) : events[i].type = "parse_error"
  /\ \E i \in 1..Len(events) : events[i].type = "tag_opened"
  /\ \E i \in 1..Len(events) : events[i].type = "tag_completed"

\* the buffer the last parse() call worked on, when its chunk fitted
Worked == last.before \o last.chunk

Fits == Len(Worked) <= config.maxBufferSize

\* the elements of a sequence that satisfy Test, in order
Filter(seq, Test(_)) == SelectSeq(seq, Test)

IsUnknownMatch(m) == m.tagName \notin DOMAIN tagRegistry

\* the record processTagFlat builds of a match before it validates it
FlatTagOf(m) ==
  applyDefaults([tagName |-> m.tagName,
                 content |-> IF config.trimWhitespace THEN Trim(m.content) ELSE m.content,
                 attributes |-> m.attributes],
                tagRegistry[m.tagName])

\* a registered match that its validator and its transformer accept
IsAcceptedMatch(m) ==
  /\ m.tagName \in DOMAIN tagRegistry
  /\ validate(FlatTagOf(m), tagRegistry[m.tagName]) = "none"
  /\ transform(FlatTagOf(m), tagRegistry[m.tagName]).err = "none"

IsUnknownError(ev) == ev.type = "parse_error" /\ ev.code = "UNKNOWN_TAG"

\* C11: flat mode: in one parse() call every complete tag with an unregistered
\* name yields exactly one parse_error UnknownTag with that match as context and
\* no tag_completed, and every registered complete tag of the same buffer that
\* its validator and transformer accept is completed, in order.
C11_UnknownTagsReportedOthersCompleted ==
  (~config.enableNested /\ last.op = "parse" /\ Fits) =>
    /\ [i \in 1..Len(Filter(NewEvents, IsUnknownError)) |->
          Filter(NewEvents, IsUnknownError)[i].content]
       = [i \in 1..Len(Filter(findCompleteTags(Worked), IsUnknownMatch)) |->
            Filter(findCompleteTags(Worked), IsUnknownMatch)[i].fullMatch]
    /\ [i \in 1..Len(Filter(NewEvents, IsCompleted)) |->
          Filter(NewEvents, IsCompleted)[i].tagName]
       = [i \in 1..Len(Filter(findCompleteTags(Worked), IsAcceptedMatch)) |->
            Filter(findCompleteTags(Worked), IsAcceptedMatch)[i].tagName]

\* an unregistered pair in front of a registered one, in one call
C11_Witness ==
  /\ ~config.enableNested
  /\ last.op = "parse"
  /\ last.chunk = PairB \o OpenA \o CloseA
  /\ NameB \notin DOMAIN tagRegistry
  /\ Len(NewEvents) >= 3
  /\ IsUnknownError(NewEvents[1])
  /\ NewEvents[1].content = PairB
  /\ NewEvents[3].type = "tag_completed"
  /\ NewEvents[3].tagName = NameA

\* the tags of buf from offset idx on, as the matcher alone finds them one after
\* the other
RECURSIVE NestedMatches(_, _)
NestedMatches(buf, idx) ==
  IF idx >= Len(buf) THEN <<>>
  ELSE LET m == findNextTag(buf, idx)
       IN IF ~m.found THEN <<>> ELSE <<m>> \o NestedMatches(buf, m.endIndex)

IsOpening(m) == m.type = "opening"

IsOpened(ev) == ev.type = "tag_opened"

IsParseError(ev) == ev.type = "parse_error"

IsRejection(ev) ==
  /\ ev.type = "parse_error"
  /\ ev.code \in {"CONTENT_VALIDATION_FAILED", "ATTRIBUTE_VALIDATION_FAILED",
                  "TRANSFORMATION_FAILED"}

\* C12: in flat and in nested mode, when a validator or a transformer rejects a
\* record, the failure is reported by parse_error and the tags that follow in
\* the same parse() call are still processed: in flat mode every complete match
\* ends as a record or a report, in nested mode every opener is opened.
C12_RejectionDoesNotStopTheCall ==
  (/\ last.op = "parse"
   /\ Fits
   /\ Filter(NewEvents, IsRejection) # <<>>
   /\ Filter(NewEvents, IsRejection) = Filter(NewEvents, IsParseError)) =>
    IF config.enableNested
    THEN Len(Filter(NewEvents, IsOpened)) = Len(Filter(NestedMatches(Worked, 0), IsOpening))
    ELSE Len(Filter(NewEvents, IsCompleted)) + Len(Filter(NewEvents, IsParseError))
         = Len(findCompleteTags(Worked))

IsLockingError(ev) ==
  /\ ev.type = "parse_error"
  /\ ev.code \in {"BUFFER_OVERFLOW", "MAX_DEPTH_EXCEEDED", "MISMATCHED_CLOSING_TAG"}

IsCompletedB(ev) == ev.type = "tag_completed" /\ ev.tagName = NameB

\* C13: after a parse() call that ended in the error state with BufferOverflow,
\* MaxDepthExceeded or MismatchedClosingTag, and with no reset() in between, a
\* parse() of the well-formed chunk '<b />' that fits in the buffer leaves the
\* state completed and, in nested mode, where that form is recognized, completes
\* the tag.
C13_NoLockOutAfterError ==
  (/\ last.op = "parse"
   /\ last.chunk = SelfB
   /\ NameB \in DOMAIN tagRegistry
   /\ Fits
   /\ last.prevOp = "parse"
   /\ last.prevState = "ERROR"
   /\ last.from > 0
   /\ IsLockingError(events[last.from])) =>
    /\ state = "COMPLETED"
    /\ config.enableNested => Filter(NewEvents, IsCompletedB) # <<>>

IsSelfClosing(m) == m.type = "self-closing"

IsAbort(ev) ==
  /\ ev.type = "parse_error"
  /\ ev.code \in {"MAX_DEPTH_EXCEEDED", "MISMATCHED_CLOSING_TAG"}

\* C14: nested mode: when the only failures of the parse() calls so far are
\* MaxDepthExceeded and MismatchedClosingTag, no tag of the input is processed
\* twice: there are at most as many tag_opened notifications as openers in the
\* input, and at most as many tag_completed notifications as openers and
\* self-closing tags.
C14_NoTagProcessedTwice ==
  (/\ config.enableNested
   /\ last.op = "parse"
   /\ Filter(events, IsParseError) = Filter(events, IsAbort)) =>
    /\ Len(Filter(events, IsOpened)) <= Len(Filter(NestedMatches(text, 0), IsOpening))
    /\ Len(Filter(events, IsCompleted))
         <= Len(Filter(NestedMatches(text, 0), IsOpening))
            + Len(Filter(NestedMatches(text, 0), IsSelfClosing))

\* C15: every parse_error notification of a parse() call, in flat and in nested
\* mode, goes with one more in getStats().errorCount, and a call that reported
\* one returns with getState() equal to error.
C15_EveryReportCountsAndSetsError ==
  last.op = "parse" =>
    /\ stats.errorCount = last.prevErrors + Len(Filter(NewEvents, IsParseError))
    /\ Filter(NewEvents, IsParseError) # <<>> => state = "ERROR"

\* what is left of s behind the last of the matches, all of s when there is none
BehindLast(s, matches) ==
  IF matches = <<>> THEN s ELSE Slice(s, matches[Len(matches)].endIndex, Len(s))

\* C16: flat mode: after a parse() call whose chunk fitted, the buffer is the
\* buffer after the append without everything up to the end offset of the last
\* complete match, whatever came before it and however the matches fared; with
\* no complete match it is the previous buffer followed by the chunk.
C16_FlatBufferKeepsWhatFollowsLastMatch ==
  (~config.enableNested /\ last.op = "parse" /\ Fits) =>
    buffer = BehindLast(Worked, findCompleteTags(Worked))

\* text, a pair of the unregistered b, text: the pair is reported as an error and
\* only the trailing text stays
C16_Witness ==
  /\ ~config.enableNested
  /\ last.op = "parse"
  /\ last.chunk = TextX \o PairB \o TextX
  /\ Filter(NewEvents, IsUnknownError) # <<>>
  /\ Filter(NewEvents, IsCompleted) = <<>>
  /\ buffer = TextX

\* C17: nested mode: after a parse() call that reported no error, the buffer is
\* the input behind the end of the last tag the sweep recognized, trailing text
\* and a trailing partial tag included, and nothing of what precedes it; when
\* the sweep recognized no tag it is the previous buffer followed by the chunk.
C17_NestedBufferKeepsWhatFollowsLastTag ==
  (/\ config.enableNested
   /\ last.op = "parse"
   /\ Filter(NewEvents, IsParseError) = <<>>) =>
    buffer = BehindLast(Worked, NestedMatches(Worked, 0))

\* a fragment that ends within an opener: the text and the partial tag behind
\* '<a>' stay buffered
C17_Witness ==
  /\ config.enableNested
  /\ last.op = "parse"
  /\ last.chunk = OpenA \o <<"x", "<", "b">>
  /\ Filter(NewEvents, IsOpened) # <<>>
  /\ Filter(NewEvents, IsParseError) = <<>>
  /\ buffer = <<"x", "<", "b">>

IsClosing(m) == m.type = "closing"

\* the names of the tags that were open when the last call was made, bottom first
OpenNames == [i \in 1..Len(last.stack) |-> heap[last.stack[i]].tagName]

\* the position of the innermost open tag called name, 0 when there is none
InnermostOpen(name) ==
  IF \E i \in 1..Len(OpenNames) : OpenNames[i] = name
  THEN CHOOSE i \in 1..Len(OpenNames) :
         /\ OpenNames[i] = name
         /\ \A j \in (i + 1)..Len(OpenNames) : OpenNames[j] # name
  ELSE 0

\* the only tag of the buffer the last call worked on is a closer whose name is
\* that of an open tag below the innermost one
ClosesBelowTop ==
  /\ config.enableNested
  /\ config.autoCloseUnclosed
  /\ last.op = "parse"
  /\ Len(NestedMatches(Worked, 0)) = 1
  /\ IsClosing(NestedMatches(Worked, 0)[1])
  /\ InnermostOpen(NestedMatches(Worked, 0)[1].tagName) \in 1..(Len(OpenNames) - 1)

\* C18: nested mode with autoCloseUnclosed on: a closer named like an open entry
\* below the top of the stack completes the entries above that entry innermost
\* first, then that entry, leaves the entries beneath it on the stack, and
\* lowers the depth by the number of entries it completed.
C18_CloserCompletesDownToItsOpener ==
  ClosesBelowTop =>
    LET k == InnermostOpen(NestedMatches(Worked, 0)[1].tagName)
        n == Len(last.stack)
    IN /\ [i \in 1..Len(Filter(NewEvents, IsCompleted)) |->
             Filter(NewEvents, IsCompleted)[i].id]
          = [i \in 1..(n - k + 1) |-> last.stack[n - i + 1]]
       /\ [i \in 1..Len(tagStack) |-> tagStack[i].tag] = SubSeq(last.stack, 1, k - 1)
       /\ currentDepth = last.prevDepth - (n - k + 1)

\* the only tag of the buffer the last call worked on is a closer whose name is
\* not that of the innermost open tag, with autoCloseUnclosed off
ClosesOtherThanTop ==
  /\ config.enableNested
  /\ ~config.autoCloseUnclosed
  /\ last.op = "parse"
  /\ Fits
  /\ Len(NestedMatches(Worked, 0)) = 1
  /\ IsClosing(NestedMatches(Worked, 0)[1])
  /\ last.stack # <<>>
  /\ OpenNames[Len(OpenNames)] # NestedMatches(Worked, 0)[1].tagName

\* C19: nested mode with autoCloseUnclosed off: a closer whose name differs from
\* that of the innermost open tag is reported as MismatchedClosingTag with the
\* innermost open tag's name as expected and the closer's name as actual, and it
\* pops and completes nothing: stack and depth are as before the call.
C19_MismatchRaisesAndPopsNothing ==
  ClosesOtherThanTop =>
    /\ Len(Filter(NewEvents, IsParseError)) = 1
    /\ LastEvent.type = "parse_error"
    /\ LastEvent.code = "MISMATCHED_CLOSING_TAG"
    /\ LastEvent.errContext = [expected |-> OpenNames[Len(OpenNames)],
                               actual |-> NestedMatches(Worked, 0)[1].tagName]
    /\ Filter(NewEvents, IsCompleted) = <<>>
    /\ [i \in 1..Len(tagStack) |-> tagStack[i].tag] = last.stack
    /\ currentDepth = last.prevDepth
    /\ state = "ERROR"

\* '</b>' while a is the innermost of two open tags
C19_Witness ==
  /\ ClosesOtherThanTop
  /\ last.chunk = CloseB
  /\ Len(last.stack) = 2
  /\ OpenNames[2] = NameA
  /\ LastEvent.errContext = [expected |-> NameA, actual |-> NameB]
  /\ Len(tagStack) = 2

\* the children of record p are the records created while p was the innermost
\* open one, each once, in the order of their creation
ChildrenInOrder(p) ==
  /\ \A i \in 1..Len(heap[p].children) :
       /\ heap[p].children[i] \in 1..Len(heap)
       /\ heap[heap[p].children[i]].parent = p
  /\ \A i, j \in 1..Len(heap[p].children) :
       i < j => heap[p].children[i] < heap[p].children[j]
  /\ \A c \in 1..Len(heap) :
       heap[c].parent = p => \E i \in 1..Len(heap[p].children) : heap[p].children[i] = c

IsCompletedA(ev) == ev.type = "tag_completed" /\ ev.tagName = NameA

\* '<a><b>x</b></a>' given to a fresh engine in one call, both tags registered
\* and accepted
NestedPairParsed ==
  /\ config.enableNested
  /\ tagRegistry = SplitRegistry
  /\ calls = 1
  /\ text = OpenA \o PairB \o CloseA

\* C20: nested mode: every record opened or self-closed while another record is
\* the innermost open one is in that record's children exactly once, the
\* children are in document order and hold nothing else; and after
\* '<a><b>x</b></a>' the depth has peaked at 2 and is 0 again, and the completed
\* a has exactly one child, b.
C20_ChildrenAreTheRecordsOpenedInside ==
  /\ \A p \in 1..Len(heap) : ChildrenInOrder(p)
  /\ NestedPairParsed =>
       /\ stats.maxDepthReached = 2
       /\ \A i \in 1..Len(events) : events[i].depth <= 2
       /\ currentDepth = 0
       /\ Len(Filter(events, IsCompletedA)) = 1
       /\ Len(Filter(events, IsCompletedA)[1].children) = 1
       /\ heap[Filter(events, IsCompletedA)[1].children[1]].tagName = NameB

\* the pair inside a, parsed: b is the one child of a
C20_Witness ==
  /\ NestedPairParsed
  /\ tagStack = <<>>
  /\ Len(heap) = 2
  /\ heap[1].children = <<2>>
  /\ heap[2].parent = 1

\* the text in front of the first tag of the buffer the last call worked on
LeadingText == Slice(Worked, 0, NestedMatches(Worked, 0)[1].startIndex)

\* a nested parse() call without failure whose buffer has text in front of its
\* first tag
TextBeforeTag ==
  /\ config.enableNested
  /\ last.op = "parse"
  /\ Fits
  /\ Filter(NewEvents, IsParseError) = <<>>
  /\ NestedMatches(Worked, 0) # <<>>
  /\ LeadingText # <<>>

\* C21: nested mode: the text between the tag recognized before and the next tag
\* is appended to the innermost open record and notified by tag_content_update
\* for that record, whitespace-only or not; with no record open, whitespace-only
\* text is dropped without notification.
C21_TextGoesToInnermostOpenRecord ==
  TextBeforeTag =>
    IF last.stack # <<>>
    THEN /\ NewEvents # <<>>
         /\ NewEvents[1].type = "tag_content_update"
         /\ NewEvents[1].id = last.stack[Len(last.stack)]
         /\ NewEvents[1].content = LeadingText
    ELSE Trim(LeadingText) = <<>> => NewEvents[1].type # "tag_content_update"

\* a name is defined when the registry has it in some letter case
IsDefinedFolded(name) ==
  \E key \in DOMAIN tagRegistry : ToLowerCase(key) = ToLowerCase(name)

\* C22: with caseSensitive false a definition applies to its tag in any letter
\* case, and an opener and a closer that differ in letter case only delimit one
\* tag: in flat mode '<a></a>' is not reported as unknown when a is defined as
\* 'A' or 'a', and '<a></A>' is one complete tag; in nested mode '</A>' closes
\* the innermost open a.
C22_NamesAreCaseFolded ==
  (~config.caseSensitive /\ last.op = "parse" /\ Fits) =>
    /\ (~config.enableNested /\ Worked = OpenA \o CloseA /\ IsDefinedFolded(NameA)) =>
         /\ Filter(NewEvents, IsUnknownError) = <<>>
         /\ Filter(NewEvents, IsCompletedA) # <<>>
    /\ (~config.enableNested /\ Worked = OpenA \o CloseUpperA) =>
         \/ Filter(NewEvents, IsCompletedA) # <<>>
         \/ Filter(NewEvents, IsParseError) # <<>>
    /\ (/\ config.enableNested
        /\ Worked = CloseUpperA
        /\ last.stack # <<>>
        /\ OpenNames[Len(OpenNames)] = NameA) =>
         /\ Len(Filter(NewEvents, IsCompletedA)) = 1
         /\ Filter(NewEvents, IsCompletedA)[1].id = last.stack[Len(last.stack)]

\* the number of characters consume(n) takes from a buffer of length len
Taken(n, len) == IF n <= 0 THEN 0 ELSE IF n >= len THEN len ELSE n

\* C24: consume(n) returns the first min(n, len) characters of the buffer, none
\* when n <= 0, leaves the buffer without exactly those characters, and does not
\* change the total-processed counter.
C24_ConsumeTakesPrefix ==
  bufLast.op = "consume" =>
    /\ Len(bufLast.ret) = Taken(bufLast.n, Len(bufLast.before))
    /\ bufLast.ret \o buffer = bufLast.before
    /\ totalBytesProcessed = bufLast.beforeTotal

\* a consume that takes part of the buffer
C24_Witness ==
  /\ bufLast.op = "consume"
  /\ bufLast.n = 2
  /\ Len(bufLast.before) = 3
  /\ Len(bufLast.ret) = 2
  /\ Len(buffer) = 1
  /\ totalBytesProcessed > 0

NameCount == <<"c", "o", "u", "n", "t">>
NamePrice == <<"p", "r", "i", "c", "e">>
NameActive == <<"a", "c", "t", "i", "v", "e">>
NameDisabled == <<"d", "i", "s", "a", "b", "l", "e", "d">>

\* what each attribute of the matcher runs is to decode to
Decoding ==
  {[token |-> Count42, name |-> NameCount, value |-> NumVal(42, 0)],
   [token |-> Price1999, name |-> NamePrice, value |-> NumVal(1999, 2)],
   [token |-> ActiveTrue, name |-> NameActive, value |-> BoolVal(TRUE)],
   [token |-> DisabledFalse, name |-> NameDisabled, value |-> BoolVal(FALSE)],
   [token |-> <<" ", "c", "o", "u", "n", "t">>, name |-> NameCount,
    value |-> BoolVal(TRUE)],
   [token |-> <<" ", "c", "o", "u", "n", "t", "=", "\"", "0", "4", "\"">>,
    name |-> NameCount, value |-> NumVal(4, 0)],
   [token |-> <<" ", "c", "o", "u", "n", "t", "=", "'", "4", " ", "2", "'">>,
    name |-> NameCount, value |-> StrVal(<<"4", " ", "2">>)],
   [token |-> <<" ", "p", "r", "i", "c", "e", "=", ".", "9", "0">>,
    name |-> NamePrice, value |-> NumVal(9, 1)],
   [token |-> <<" ", "p", "r", "i", "c", "e", "=", "1", ".", "2", ".", "4">>,
    name |-> NamePrice, value |-> StrVal(<<"1", ".", "2", ".", "4">>)],
   [token |-> <<" ", "a", "c", "t", "i", "v", "e", "=", "T", "r", "u", "e">>,
    name |-> NameActive, value |-> StrVal(<<"T", "r", "u", "e">>)],
   [token |-> <<" ", "a", "c", "t", "i", "v", "e", "=", "\"", "\"">>,
    name |-> NameActive, value |-> StrVal(<<>>)]}

ExampleAttributes == Tail(Count42 \o Price1999 \o ActiveTrue \o DisabledFalse)

\* C25: parseAttributes decodes a value of digits to an integer, digits with a
\* decimal point to a number, 'true' and 'false' to booleans, leaves any other
\* value a string, gives an attribute without value boolean true, and lets a
\* later attribute overwrite an earlier one of the same name; the string
\* 'count=42 price=19.99 active=true disabled=false' decodes to count 42, price
\* 19.99, active true, disabled false.
C25_AttributesAreCoerced ==
  matched.op = "parseAttributes" =>
    /\ \A d \in Decoding :
         matched.arg = d.token =>
           matched.ret = Attrs([n \in {d.name} |-> d.value])
    /\ \A d1, d2 \in Decoding :
         matched.arg = d1.token \o d2.token =>
           matched.ret = Attrs([n \in {d1.name, d2.name} |->
                                  IF n = d2.name THEN d2.value ELSE d1.value])
    /\ matched.arg = ExampleAttributes =>
         matched.ret = Attrs([n \in {NameCount, NamePrice, NameActive, NameDisabled} |->
                                CASE n = NameCount -> NumVal(42, 0)
                                  [] n = NamePrice -> NumVal(1999, 2)
                                  [] n = NameActive -> BoolVal(TRUE)
                                  [] n = NameDisabled -> BoolVal(FALSE)])

\* the example, decoded by the second instance after a call of the first
C25_Witness ==
  /\ matched.op = "parseAttributes"
  /\ matched.who = "second"
  /\ matched.arg = ExampleAttributes
  /\ matched.ret.present
  /\ matched.ret.map[NamePrice] = NumVal(1999, 2)

\* the offsets of buf, from startIndex on, where a tag of any of the three forms starts
TagStarts(buf, startIndex) ==
  {p \in startIndex..(Len(buf) - 1) :
     SelfClosingAt(buf, p).found \/ OpeningAt(buf, p).found \/ ClosingAt(buf, p).found}

FirstOf(starts) == CHOOSE p \in starts : \A q \in starts : p <= q

\* the form of the tag written at offset p of buf
FormAt(buf, p) ==
  IF SelfClosingAt(buf, p).found THEN "self-closing"
  ELSE IF ClosingAt(buf, p).found THEN "closing" ELSE "opening"

\* C26: findNextTag(buffer, from) returns the opening, closing or self-closing
\* tag that starts at the smallest offset at or after from, its offsets counted
\* from the start of the whole buffer, and nothing when no tag starts there; a
\* tag in self-closing form (with or without attributes, with or without a space
\* before '/>') is returned as self-closing, never as opening.
C26_FindNextTagIsEarliest ==
  matched.op = "findNextTag" =>
    LET starts == TagStarts(matched.arg, matched.startIndex)
        r == matched.ret
    IN IF starts = {} THEN ~r.found
       ELSE /\ r.found
            /\ r.startIndex = FirstOf(starts)
            /\ r.endIndex > r.startIndex
            /\ r.endIndex <= Len(matched.arg)
            /\ r.fullMatch = Slice(matched.arg, r.startIndex, r.endIndex)
            /\ Ch(matched.arg, r.endIndex - 1) = ">"
            /\ r.type = FormAt(matched.arg, r.startIndex)

\* a self-closing tag with a space before '/>', which the opening pattern matches
\* too, found behind a tag that the search skips by starting inside it
C26_Witness ==
  /\ matched.op = "findNextTag"
  /\ matched.startIndex > 0
  /\ matched.ret.found
  /\ matched.ret.startIndex > matched.startIndex
  /\ matched.ret.type = "self-closing"
  /\ OpeningAt(matched.arg, matched.ret.startIndex).found
  /\ TagStarts(matched.arg, 0) # TagStarts(matched.arg, matched.startIndex)

\* C28: with autoCloseUnclosed false, finalize() does not close the tags still
\* open at the end of the input: it emits no tag_completed for them.
C28_FinalizeLeavesOpenTagsUnclosed ==
  (last.op = "finalize" /\ ~config.autoCloseUnclosed /\ last.stack # <<>>) =>
    \A i \in 1..Len(NewEvents) : ~IsCompleted(NewEvents[i])

\* C27: in nested mode only registered tags are processed: a tag whose name is
\* not registered is not pushed on the stack and emits no tag_opened and no
\* tag_completed.
C27_UnregisteredTagsAreNotProcessed ==
  (config.enableNested /\ last.op \in {"parse", "finalize"}) =>
    /\ \A i \in 1..Len(NewEvents) :
         (IsOpened(NewEvents[i]) \/ IsCompleted(NewEvents[i])) =>
           IsDefinedFolded(NewEvents[i].tagName)
    /\ \A i \in 1..Len(tagStack) : IsDefinedFolded(heap[tagStack[i].tag].tagName)

\* C29: with trimWhitespace true, the content of every record that tag_completed
\* delivers has no leading and no trailing whitespace, in flat and in nested
\* mode.
C29_CompletedContentIsTrimmed ==
  config.trimWhitespace =>
    \A i \in 1..Len(NewEvents) :
      IsCompleted(NewEvents[i]) => NewEvents[i].content = Trim(NewEvents[i].content)

\* the same in flat mode only
C29_FlatContentIsTrimmed == ~config.enableNested => C29_CompletedContentIsTrimmed

\* the records completed by the last call for a tag registered with a
\* defaultContent and no transformer
CompletedWithDefault ==
  {i \in 1..Len(NewEvents) :
     /\ IsCompleted(NewEvents[i])
     /\ NewEvents[i].tagName \in DOMAIN tagRegistry
     /\ tagRegistry[NewEvents[i].tagName].defaultContent # <<>>
     /\ tagRegistry[NewEvents[i].tagName].transformContent = "none"}

\* the content is text of the input alone: not blank, and without any character
\* of the default
IsTextWithout(content, defaultContent) ==
  /\ Trim(content) # <<>>
  /\ \A k \in 1..Len(content) : \A j \in 1..Len(defaultContent) :
       content[k] # defaultContent[j]

\* C30: a definition's defaultContent is used only when the tag is empty: the
\* content of a completed record is the defaultContent when the tag carried no
\* text but whitespace, and otherwise the text of the tag without the default,
\* in flat and in nested mode.
C30_DefaultContentOnlyWhenEmpty ==
  \A i \in CompletedWithDefault :
    \/ NewEvents[i].content = tagRegistry[NewEvents[i].tagName].defaultContent
    \/ IsTextWithout(NewEvents[i].content,
                     tagRegistry[NewEvents[i].tagName].defaultContent)

\* the same in flat mode only
C30_FlatDefaultContent == ~config.enableNested => C30_DefaultContentOnlyWhenEmpty

\* what the call recorded in matched returns when no other instance has ever
\* touched the patterns
AloneReturn ==
  CASE matched.op = "findNextTag" -> findNextTag(matched.arg, matched.startIndex)
    [] matched.op = "findCompleteTags" -> findCompleteTags(matched.arg)
    [] matched.op = "parseAttributes" -> parseAttributes(matched.arg)
    [] OTHER -> matched.ret

CompletedWithValidator ==
  {i \in 1..Len(NewEvents) :
     /\ IsCompleted(NewEvents[i])
     /\ NewEvents[i].tagName \in DOMAIN tagRegistry
     /\ tagRegistry[NewEvents[i].tagName].validateContent = "minLength"
     /\ tagRegistry[NewEvents[i].tagName].transformContent = "none"}

\* C31: no record of a tag whose definition has a validator is delivered by
\* tag_completed unless the validator was invoked on that record, also when its
\* content is empty, and returned true: a record that minLength(MinLen) does not
\* accept is never delivered.
C31_CompletedRecordsPassedValidation ==
  \A i \in CompletedWithValidator : minLength(NewEvents[i].content)

\* the same for records with content
C31_NonEmptyRecordsPassedValidation ==
  \A i \in CompletedWithValidator :
    NewEvents[i].content # <<>> => minLength(NewEvents[i].content)

\* C32: after every parse(), finalize() or reset() call returns, in flat and in
\* nested mode, the statistics snapshot is current: getStats().bufferSize is
\* getBufferSize() and getStats().registeredTagsCount is the number of
\* registered definitions.
C32_StatsAreCurrent ==
  (last.op \in {"parse", "finalize", "reset"} /\ ~last.threw) =>
    /\ stats.bufferSize = Len(buffer)
    /\ stats.registeredTagsCount = Cardinality(DOMAIN tagRegistry)

\* the same after the parse calls of flat mode that report no chunk-level error
C32_FlatParseStatsAreCurrent ==
  (last.op = "parse" /\ ~config.enableNested /\ state = "COMPLETED") =>
    /\ stats.bufferSize = Len(buffer)
    /\ stats.registeredTagsCount = Cardinality(DOMAIN tagRegistry)

\* C33: the bytes-processed counter restarts at zero on reset(): after reset()
\* and one accepted parse(chunk) that recomputes the statistics,
\* getStats().totalBytesProcessed is the length of that chunk and includes no
\* byte appended before the reset.
C33_BytesProcessedRestartsOnReset ==
  (last.op = "parse" /\ last.prevOp = "reset" /\ ~config.enableNested
     /\ state = "COMPLETED") =>
    stats.totalBytesProcessed = Len(last.chunk)

\* C34: flat mode: finalize() flushes whatever no complete match has consumed:
\* after finalize() returns, getBufferSize() is 0.
C34_FinalizeFlushesBuffer ==
  (last.op = "finalize" /\ ~config.enableNested /\ ~last.threw) => Len(buffer) = 0

\* flat mode: what no complete match has consumed stays in the buffer across
\* parse() calls: a parse call that matches nothing leaves the old content
\* followed by the chunk
C34_UnmatchedContentStays ==
  (last.op = "parse" /\ ~config.enableNested /\ state = "COMPLETED"
     /\ findCompleteTags(Worked) = <<>>) =>
    buffer = Worked

\* C40: nested mode: text behind the last recognised tag that is still buffered
\* when finalize() is called is appended to the innermost open record before
\* that record is auto-closed: the record completed first by finalize() ends
\* with the text the buffer held.
C40_FinalizeFlushesTrailingText ==
  (last.op = "finalize" /\ config.enableNested /\ last.stack # <<>>
     /\ Trim(last.before) # <<>> /\ findNextTag(last.before, 0) = NoMatch
     /\ \E i \in 1..Len(NewEvents) : IsCompleted(NewEvents[i])) =>
    LET first == CHOOSE i \in 1..Len(NewEvents) :
                   /\ IsCompleted(NewEvents[i])
                   /\ \A j \in 1..(i - 1) : ~IsCompleted(NewEvents[j])
        content == NewEvents[first].content
    IN /\ NewEvents[first].id = last.stack[Len(last.stack)]
       /\ Len(content) >= Len(last.before)
       /\ SubSeq(content, Len(content) - Len(last.before) + 1, Len(content)) = last.before

\* C35: nested mode: a tag whose definition sets allowSelfClosing to false is
\* never completed from its self-closing form: no tag_completed delivers a
\* self-closing record of such a tag.
C35_SelfClosingFormIsRejected ==
  config.enableNested =>
    \A i \in 1..Len(NewEvents) :
      (IsCompleted(NewEvents[i]) /\ NewEvents[i].tagName \in DOMAIN tagRegistry
         /\ ~tagRegistry[NewEvents[i].tagName].allowSelfClosing) =>
        ~heap[NewEvents[i].id].isSelfClosing

\* the notification at place k of the log is of the given type and record
IsEventOf(k, type, id) ==
  /\ k \in 1..Len(events)
  /\ events[k].type = type
  /\ events[k].id = id

\* tag_opened comes right before tag_started, and both before tag_closed
OpenedBeforeStarted ==
  \A k \in 1..Len(events) :
    events[k].type = "tag_started" => IsEventOf(k - 1, "tag_opened", events[k].id)

ClosedBeforeCompleted ==
  \A k \in 1..Len(events) :
    IsCompleted(events[k]) =>
      /\ IsEventOf(k - 1, "tag_closed", events[k].id)
      /\ \A j \in 1..Len(events) :
           (IsEventOf(j, "tag_opened", events[k].id)
              \/ IsEventOf(j, "tag_started", events[k].id)) => j < k - 1

\* every record of the children list was completed before
ChildrenBeforeParent ==
  \A k \in 1..Len(events) :
    IsCompleted(events[k]) =>
      \A c \in 1..Len(heap[events[k].id].children) :
        \E j \in 1..(k - 1) : IsEventOf(j, "tag_completed", heap[events[k].id].children[c])

\* subtree_completed follows tag_completed at once, exactly for records with a child
SubtreeAfterCompleted ==
  /\ \A k \in 1..Len(events) :
       IsCompleted(events[k]) =>
         (Len(heap[events[k].id].children) > 0
            <=> IsEventOf(k + 1, "subtree_completed", events[k].id))
  /\ \A k \in 1..Len(events) :
       events[k].type = "subtree_completed" =>
         IsEventOf(k - 1, "tag_completed", events[k].id)

\* C36: nested mode: for every record, tag_opened precedes tag_started, which
\* precedes its tag_closed and tag_completed; the tag_completed of a record is
\* emitted only after the tag_completed of every record in its children list;
\* subtree_completed is emitted right after tag_completed, exactly for the
\* records that have at least one child.
C36_NotificationOrder ==
  config.enableNested =>
    /\ OpenedBeforeStarted
    /\ ClosedBeforeCompleted
    /\ ChildrenBeforeParent
    /\ SubtreeAfterCompleted

\* the last call reported a failure through the catch clause of parse: the
\* parse_error carrying the chunk is the last notification and errorCount grew
ChunkLevelError ==
  /\ NewEvents # <<>>
  /\ IsParseError(LastEvent)
  /\ LastEvent.content = last.chunk
  /\ stats.errorCount = last.prevErrors + 1

IdleUntilFirstCall == last.op \in {"none", "reset"} => state = "IDLE"

ParseEndsCompletedOrError ==
  last.op = "parse" =>
    /\ state \in {"COMPLETED", "ERROR"}
    /\ state = "ERROR" <=> ChunkLevelError

FinalizeEndsCompleted == last.op = "finalize" => state = "COMPLETED"

\* C37: getState() is idle from construction or reset() until the next parse()
\* or finalize(); whenever parse() returns, the state is completed or error, and
\* error exactly when that call reported its failure through the chunk-level
\* error path; finalize() always leaves the state completed; the state parsing
\* is never seen between calls.
C37_StateBetweenCalls ==
  /\ IdleUntilFirstCall
  /\ ParseEndsCompletedOrError
  /\ FinalizeEndsCompleted
  /\ state # "PARSING"

\* C38: nested mode: no record is ever created or completed with a depth
\* greater than maxDepth, self-closing tags met at the depth ceiling included,
\* and getStats().maxDepthReached never exceeds maxDepth.
C38_DepthNeverExceedsMaxDepth ==
  config.enableNested =>
    /\ \A id \in 1..Len(heap) : heap[id].depth <= config.maxDepth
    /\ \A k \in 1..Len(events) :
         IsCompleted(events[k]) => events[k].depth <= config.maxDepth
    /\ stats.maxDepthReached <= config.maxDepth

\* the same for the records that are not self-closing
C38_OpenedDepthWithinMaxDepth ==
  config.enableNested =>
    /\ \A id \in 1..Len(heap) :
         ~heap[id].isSelfClosing => heap[id].depth <= config.maxDepth
    /\ stats.maxDepthReached <= config.maxDepth

\* a parse call of nested mode with autoCloseUnclosed on that met one tag, a
\* closer, with at least one tag open
ClosesWithAutoClose ==
  /\ config.enableNested
  /\ config.autoCloseUnclosed
  /\ last.op = "parse"
  /\ Fits
  /\ last.stack # <<>>
  /\ Len(NestedMatches(Worked, 0)) = 1
  /\ IsClosing(NestedMatches(Worked, 0)[1])

\* C39: nested mode with autoCloseUnclosed on and at least one tag open:
\* processing a closing tag never produces a parse_error, also when no open tag
\* has the closer's name.
C39_AutoCloseNeverFails ==
  ClosesWithAutoClose => \A i \in 1..Len(NewEvents) : ~IsParseError(NewEvents[i])

\* the same when an open tag has the closer's name and no definition has a
\* validator or a transformer
C39_AutoCloseToOpenTag ==
  (ClosesWithAutoClose
     /\ InnermostOpen(NestedMatches(Worked, 0)[1].tagName) \in 1..Len(OpenNames)
     /\ \A n \in DOMAIN tagRegistry :
          tagRegistry[n].validateContent = "none"
            /\ tagRegistry[n].transformContent = "none") =>
    \A i \in 1..Len(NewEvents) : ~IsParseError(NewEvents[i])


====
